---- MODULE Spec2Model ----
(***************************************************************************)
(* Adaptive decision engines of The-Miner: the Profit Switcher            *)
(* (src/src/monitoring/profit_switcher.py), the mining loop that polls it *)
(* (src/src/core/miner.py), the Alerting System                           *)
(* (src/src/monitoring/alerting_system.py), the Recovery Manager          *)
(* (src/src/utils/error_recovery.py) and the Resource Scaler              *)
(* (src/src/monitoring/resource_monitor.py).                              *)
(*                                                                         *)
(* Each engine has its own specification over the shared variables; the   *)
(* handlers' log statements change no modelled state (the engines hold no *)
(* production logger: ProductionLogger has no log_info, which their       *)
(* constructors would call on one).                                       *)
(*                                                                         *)
(* Time is a natural number of clock units; time.time() is `now`.  Profit *)
(* values are integers (the code uses floats produced by a random         *)
(* estimator); every comparison of the code is computed exactly, by cross *)
(* multiplication, with the sign of the divisor taken into account.       *)
(***************************************************************************)
EXTENDS Integers, Sequences, FiniteSets, TLC

\* ---------------------------------------------------------------- bounds
\* Number of clock units the model lets pass after construction.
MaxTicks == 3
\* config "min_switch_interval" (default 300 s), in clock units.
MinSwitchInterval == 2
\* _get_algorithm_history(minutes=30), in clock units.
HistoryWindow == 2
\* "Keep only last 100 switches", scaled.
SwitchHistoryCap == 3

\* AlertRule cooldown of the CPU rules (300 s), in clock units.
BaseCooldown == 2
\* Number of Alert objects the model lets the program create.
MaxAlerts == 3
\* AlertingSystem.max_history (1000), scaled.
AlertHistoryCap == 2

\* Clock units the model lets pass while it watches the recovery manager.
MaxRecTicks == 2
\* RecoveryAction.max_attempts of the miner's actions (3), scaled.
RecMaxAttempts == 2
\* RecoveryAction.cooldown of restart_miner (30 s), in clock units.
RecCooldown == 1
\* "len(recent_errors) > 10", scaled.
BurstLimit == 2
\* "time.time() - e.timestamp < 300", in clock units.
BurstWindow == 2
\* ErrorRecoveryManager.max_history (1000), scaled.
ErrorHistoryCap == 3
\* Number of ErrorEvents the model lets the program create.
MaxErrors == 3

\* Exceptions the model lets the rule body of the alerting loop raise.
MaxFaults == 2

\* ScalingPolicy.cooldown of the CPU policy (120 s), in clock units; the memory and
\* intensity policies (180 s, 240 s) wait one and two units longer.
ScaleCooldown == 2
\* Largest config.cpu_threads the model starts from (default 4).
MaxThreads == 3
\* Number of ScalingPolicy objects the model lets start_monitoring register.
MaxPolicies == 3

\* CPUScalingPolicy, MemoryScalingPolicy, IntensityScalingPolicy thresholds.
CpuScaleThreshold == 85
MemoryScaleThreshold == 80
IntensityScaleThreshold == 75
\* "max(0.3, current_intensity * 0.9)", intensity in thousandths.
IntensityFloor == 300

\* CPUAlertRule(threshold=85.0) and CPUAlertRule(threshold=95.0)
CpuWarningThreshold == 85
CpuCriticalThreshold == 95

\* config "switch_threshold" (default 0.1) as the fraction Num / Den.
SwitchThresholdNum == 1
SwitchThresholdDen == 10

\* time.time() at construction: the epoch clock is far larger than every
\* interval of the program, so "now - 0" passes every interval check.
Epoch == 2 * (MinSwitchInterval + HistoryWindow + BaseCooldown)

Time == Epoch..(Epoch + MaxTicks)

\* AlgorithmFactory._algorithm_info, in insertion order.
AlgoOrder == <<"sha256", "ethash">>
Algos == {AlgoOrder[i] : i \in 1..Len(AlgoOrder)}

\* profit_per_hour values the estimator may produce.
Profits == {-100, 0, 100, 105, 110, 115}

Strategies == {"immediate", "threshold", "gradual", "predictive"}

VARIABLES
    now,                 \* time.time()
    switch_strategy,     \* ProfitSwitcher.switch_strategy
    sw_running,          \* ProfitSwitcher.running
    current_algorithm,   \* ProfitSwitcher.current_algorithm ("none" = None)
    profitability_data,  \* ProfitSwitcher.profitability_data: name -> profit_per_hour
    switch_history,      \* ProfitSwitcher.switch_history: <<[ts, from, to]>>
    last_switch_time,    \* ProfitSwitcher.last_switch_time
    upd_idx,             \* position of _update_profitability_data in AlgoOrder
    upd_sleeping,        \* _update_loop is in time.sleep(update_interval)
    gba,                 \* the last get_best_algorithm call, until the state changes
    miner_algorithm,     \* name of AdvancedMiner.current_algorithm ("none" = None)
    prev_change,         \* time of the last but one change of the mined identifier
    last_change,         \* time of the last change of the mined identifier
    al_running,          \* AlertingSystem.running
    al_pc,               \* position of _monitoring_loop: "ready", "rules", "reconcile", "sleep"
    al_rule,             \* index of the rule the "for rule in self.alert_rules" loop is at
    al_metrics,          \* the metrics snapshot of the current pass
    last_triggered,      \* AlertRule.last_triggered, per rule
    trigger_count,       \* AlertRule.trigger_count, per rule
    suppressed_until,    \* AlertRule.suppressed_until, per rule
    alert_objs,          \* every Alert object created so far, by creation order
    active_alerts,       \* AlertingSystem.active_alerts: id -> Alert object
    alert_history,       \* AlertingSystem.alert_history: Alert objects
    rec_registry,        \* ErrorRecoveryManager.component_recoveries: component -> actions
    rec_last_attempt,    \* RecoveryAction.last_attempt, per action
    rec_success_count,   \* RecoveryAction.success_count, per action
    rec_failure_count,   \* RecoveryAction.failure_count, per action
    error_history,       \* ErrorRecoveryManager.error_history: ErrorEvent objects
    total_errors,        \* ErrorRecoveryManager.total_errors
    resolved_errors,     \* ErrorRecoveryManager.resolved_errors
    critical_errors,     \* ErrorRecoveryManager.critical_errors
    rec_call,            \* the last handle_error call, until the clock advances
    rm_running,          \* ResourceMonitor.running
    rm_pc,               \* position of its _monitoring_loop: "idle", "ready", "policies"
    rm_policy,           \* index of the policy "for policy in self.scaling_policies" is at
    rm_metrics,          \* the ResourceMetrics of the current pass
    rm_call,             \* the last execute_scale of the pass: policy index and result
    scaling_policies,    \* ResourceMonitor.scaling_policies: the kind of each policy
    sp_last_action,      \* ScalingPolicy.last_action, per policy
    sp_action_count,     \* ScalingPolicy.action_count, per policy
    scale_actions,       \* ResourceMonitor.scale_actions
    cpu_threads,         \* miner.config.cpu_threads
    intensity,           \* miner.config.intensity, in thousandths
    al_faults,           \* exceptions raised so far inside the alerting loop's rule body
    channel_state,       \* what each channel's _send_alert does when asked
    dispatch,            \* the _send_notifications calls of the last handler
    alive,               \* the engines among alerting, switcher whose loop thread lives
    joining,             \* the engines whose stop call is inside thread.join
    lock_owner,          \* the thread holding ProfitSwitcher._lock, or "none"
    lk_pc,               \* where each thread using the switcher stands
    lk_arg,              \* to_algorithm of the record_switch call in progress
    seen,                \* what the last get_best_algorithm found: "whole" or "partial"
    ack,                 \* what the acknowledge_alert call in progress returns
    metrics_history,     \* ResourceMonitor.metrics_history
    rc_pc,               \* where each thread inside RecoveryAction.execute stands
    loop_pos,            \* where each loop thread an engine's start created stands
    rec_mon,             \* ErrorRecoveryManager: running, its monitoring thread, the owner's last call
    he_stack             \* the handle_error calls on a thread's stack: the health check each is at

switcherVars == <<switch_strategy, sw_running, current_algorithm, profitability_data,
                  switch_history, last_switch_time, upd_idx, upd_sleeping, gba>>
minerVars == <<miner_algorithm, prev_change, last_change>>
alertVars == <<al_running, al_pc, al_rule, al_metrics, last_triggered, trigger_count,
               suppressed_until, alert_objs, active_alerts, alert_history>>
recoveryVars == <<rec_registry, rec_last_attempt, rec_success_count, rec_failure_count,
                  error_history, total_errors, resolved_errors, critical_errors, rec_call>>
\* The state of the engines added to the switcher, the miner and the alerting system.
scalerVars == <<rm_running, rm_pc, rm_policy, rm_metrics, rm_call, scaling_policies,
                sp_last_action, sp_action_count, scale_actions, cpu_threads, intensity>>
faultVars == <<al_faults>>
dispatchVars == <<channel_state, dispatch>>
stopVars == <<alive, joining>>
lockVars == <<lock_owner, lk_pc, lk_arg, seen>>
opsVars == <<ack>>
logVars == <<metrics_history>>
threadVars == <<rc_pc, loop_pos, rec_mon, he_stack>>
extVars == <<recoveryVars, scalerVars, faultVars, dispatchVars, stopVars, lockVars,
             opsVars, logVars, threadVars>>
vars == <<now, switcherVars, minerVars, alertVars, extVars>>

NoTime == 0

\* The threads that use the switcher: the mining loop polling
\* get_best_algorithm, a caller of record_switch, the update loop, and a caller
\* of get_profitability_summary or get_switch_history.
LockThreads == {"reader", "writer", "updater", "accessor"}
NoCall == [called |-> FALSE, best |-> "none", decision |-> "none", ret |-> "none"]

\* The threads that call handle_error: a collaborator's and the manager's
\* monitoring thread (_check_system_health).
HandlerThreads == {"caller", "monitor"}

\* The engines that run a polling loop in a thread of their own.
Engines == {"alerting", "scaler", "switcher"}

\* The loop threads of one engine the model follows at a time.
MaxLoopThreads == 2
LoopThreads == 1..MaxLoopThreads

\* The thread is not inside RecoveryAction.execute.
OutsideExecute == [at |-> "idle", action |-> 0]

\* ------------------------------------------------------- Profit Switcher

\* config.get("default_algorithm", "sha256")
GetDefaultAlgorithm == "sha256"

\* The comparison with > in place of >=.
ImprovementAbove(new, cur, num, den) ==
    IF cur > 0 THEN (new - cur) * den > num * cur
               ELSE (new - cur) * den < num * cur

\* (new - cur) / cur >= num / den, for cur # 0, as the float division decides it.
ImprovementAtLeast(new, cur, num, den) ==
    IF cur > 0 THEN (new - cur) * den >= num * cur
               ELSE (new - cur) * den <= num * cur

\* improvement = (new - cur) / cur; return improvement >= threshold.
\* Division by a zero profit raises ZeroDivisionError.
ThresholdDecision(new, cur, num, den) ==
    IF cur = 0 THEN "error"
    ELSE IF ImprovementAtLeast(new, cur, num, den) THEN "true" ELSE "false"

\* _get_algorithm_history: one sample of the algorithm's CURRENT profit per entry
\* of switch_history that is inside the window and names the algorithm.
RECURSIVE HistoryOf(_, _, _, _)
HistoryOf(h, data, algorithm, cutoff) ==
    IF h = <<>> THEN <<>>
    ELSE LET e == Head(h)
             rest == HistoryOf(Tail(h), data, algorithm, cutoff)
         IN IF /\ e.ts >= cutoff
               /\ (e.from = algorithm \/ e.to = algorithm)
               /\ algorithm \in DOMAIN data
            THEN <<data[algorithm]>> \o rest
            ELSE rest

GetAlgorithmHistory(algorithm) ==
    HistoryOf(switch_history, profitability_data, algorithm, now - HistoryWindow)

RECURSIVE SumX(_), SumX2(_), SumY(_, _), SumXY(_, _)
\* sums over python's x = range(n), where history[i] is h[i + 1]
SumX(n) == IF n = 0 THEN 0 ELSE (n - 1) + SumX(n - 1)
SumX2(n) == IF n = 0 THEN 0 ELSE (n - 1) * (n - 1) + SumX2(n - 1)
SumY(h, n) == IF n = 0 THEN 0 ELSE h[n] + SumY(h, n - 1)
SumXY(h, n) == IF n = 0 THEN 0 ELSE (n - 1) * h[n] + SumXY(h, n - 1)

\* _calculate_trend: the least-squares slope as the fraction TrendNum / TrendDen.
TrendNum(h) ==
    LET n == Len(h)
    IN IF n < 2 THEN 0 ELSE n * SumXY(h, n) - SumX(n) * SumY(h, n)

TrendDen(h) ==
    LET n == Len(h)
    IN IF n < 2 THEN 1 ELSE n * SumX2(n) - SumX(n) * SumX(n)

\* The number of samples below which the predictive strategy falls back.
MinSamplesOffByOne == 3 - 1

\* "if len(current_history) < 3 or len(new_history) < 3"
MinSamples == 3

\* _predictive_switch_decision(current_data, new_data)
PredictiveSwitchDecision(cur_algo, new_algo) ==
    LET cur == profitability_data[cur_algo]
        new == profitability_data[new_algo]
        current_history == GetAlgorithmHistory(cur_algo)
        new_history == GetAlgorithmHistory(new_algo)
        sc == TrendNum(current_history)
        dc == TrendDen(current_history)
        sn == TrendNum(new_history)
        dn == TrendDen(new_history)
    IN IF Len(current_history) < MinSamples \/ Len(new_history) < MinSamples
       THEN ThresholdDecision(new, cur, SwitchThresholdNum, SwitchThresholdDen)
       \* new + 10 * sn/dn > (cur + 10 * sc/dc) * 1.05, with dn > 0 and dc > 0
       ELSE IF 100 * dc * (new * dn + 10 * sn) > 105 * dn * (cur * dc + 10 * sc)
            THEN "true" ELSE "false"

\* A gate that lets a switch through one clock unit early.
MinIntervalNotElapsedEarly == now - last_switch_time < MinSwitchInterval - 1

\* "if current_time - self.last_switch_time < self.min_switch_interval"
MinIntervalNotElapsed == now - last_switch_time < MinSwitchInterval

\* _should_switch(new_algorithm) under a given strategy: "true", "false" or "error".
ShouldSwitchWith(strategy, new_algorithm) ==
    IF current_algorithm = "none" THEN "true"
    ELSE IF current_algorithm = new_algorithm THEN "false"
    ELSE IF MinIntervalNotElapsed THEN "false"
    ELSE IF \/ current_algorithm \notin DOMAIN profitability_data
            \/ new_algorithm \notin DOMAIN profitability_data
         THEN "false"
    ELSE LET cur == profitability_data[current_algorithm]
             new == profitability_data[new_algorithm]
         IN CASE strategy = "immediate" ->
                   IF new > cur THEN "true" ELSE "false"
              [] strategy = "threshold" ->
                   ThresholdDecision(new, cur, SwitchThresholdNum, SwitchThresholdDen)
              [] strategy = "gradual" ->
                   ThresholdDecision(new, cur, SwitchThresholdNum, 2 * SwitchThresholdDen)
              [] strategy = "predictive" ->
                   PredictiveSwitchDecision(current_algorithm, new_algorithm)
              [] OTHER -> "false"

ShouldSwitch(new_algorithm) == ShouldSwitchWith(switch_strategy, new_algorithm)

\* The sort without reverse=True: the first key of the least profit.
LeastProfitableAlgorithm ==
    LET present == {i \in 1..Len(AlgoOrder) : AlgoOrder[i] \in DOMAIN profitability_data}
        isLeast(i) == \A j \in present :
                         \/ profitability_data[AlgoOrder[j]] > profitability_data[AlgoOrder[i]]
                         \/ (profitability_data[AlgoOrder[j]] = profitability_data[AlgoOrder[i]]
                             /\ i <= j)
    IN AlgoOrder[CHOOSE i \in present : isLeast(i)]

\* sorted(items, key=profit_per_hour, reverse=True)[0][0]: the sort is stable, so
\* among equal profits the first key in dict insertion order (AlgoOrder) wins.
BestAlgorithm ==
    LET present == {i \in 1..Len(AlgoOrder) : AlgoOrder[i] \in DOMAIN profitability_data}
        isBest(i) == \A j \in present :
                        \/ profitability_data[AlgoOrder[j]] < profitability_data[AlgoOrder[i]]
                        \/ (profitability_data[AlgoOrder[j]] = profitability_data[AlgoOrder[i]]
                            /\ i <= j)
    IN AlgoOrder[CHOOSE i \in present : isBest(i)]

\* The call record of get_best_algorithm: what it computed and what it returned.
GetBestResult ==
    IF DOMAIN profitability_data = {}
    THEN [called |-> TRUE, best |-> "none", decision |-> "nodata",
          ret |-> GetDefaultAlgorithm]
    ELSE LET best == BestAlgorithm
             d == ShouldSwitch(best)
         IN [called |-> TRUE, best |-> best, decision |-> d,
             ret |-> IF d = "true" THEN best
                     ELSE IF d = "error" THEN "error"
                     ELSE IF current_algorithm # "none" THEN current_algorithm
                     ELSE GetDefaultAlgorithm]

\* ------------------------------------------------------- Alerting System

\* AlertingSystem._setup_default_rules, in list order: cpu_warning and
\* cpu_critical, which share a name.  The memory, disk and temperature pairs repeat
\* the shape of this pair, and the mining rule that of a pair's first rule.
AlertRules == <<
    [name |-> "High CPU Usage", threshold |-> CpuWarningThreshold,
     cooldown |-> BaseCooldown],
    [name |-> "High CPU Usage", threshold |-> CpuCriticalThreshold,
     cooldown |-> BaseCooldown] >>
Rules == 1..Len(AlertRules)

\* AlertingSystem.alert_channels with each channel's "enabled" flag.
AlertChannels == <<
    [name |-> "email", enabled |-> TRUE],
    [name |-> "webhook", enabled |-> FALSE],
    [name |-> "slack", enabled |-> TRUE] >>
Channels == 1..Len(AlertChannels)

\* resource_monitor.get_stats()["current_metrics"]["cpu_percent"]
Snapshots == [cpu : {80, 90, 96}]
NoMetrics == [cpu |-> 0]

\* CPUAlertRule._evaluate_condition
EvaluateCondition(r, metrics) == metrics.cpu > AlertRules[r].threshold

\* A cooldown check that ends one clock unit early.
InCooldownEarly(r) == now - last_triggered[r] < AlertRules[r].cooldown - 1

\* "if current_time - self.last_triggered < self.cooldown"
InCooldown(r) == now - last_triggered[r] < AlertRules[r].cooldown

\* should_trigger without its suppression test.
ShouldTriggerUnsuppressed(r, metrics) ==
    IF InCooldown(r) THEN FALSE
    ELSE EvaluateCondition(r, metrics)

\* AlertRule.should_trigger
ShouldTrigger(r, metrics) ==
    IF InCooldown(r) THEN FALSE
    ELSE IF now < suppressed_until[r] THEN FALSE
    ELSE EvaluateCondition(r, metrics)

\* Alert.id = f"{name}_{int(last_triggered)}"
AlertId(name, ts) == [name |-> name, ts |-> ts]

\* No acknowledge_alert call is in progress.
NoAck == [id |-> AlertId("none", NoTime), ret |-> "none"]

NoSends == [c \in Channels |-> [active |-> 0, resolved |-> 0]]

\* What a channel's _send_alert does: returns True, returns False, raises.
ChannelOutcomes == {"sent", "refused", "raised"}

\* No handler has called _send_notifications.
NoDispatch == [status |-> "none", alerts |-> {}, attempts |-> <<>>, escaped |-> FALSE]

\* The Alert built by AlertRule.trigger (rule r) or by create_manual_alert
\* (rule 0).  "sent" counts, per channel, the _send_alert attempts made for the
\* object while it was active and once it was resolved; "resolved_cond" is what
\* the firing rule's condition was on the snapshot of the pass that resolved it.
NewAlert(name, r) ==
    [id |-> AlertId(name, now), title |-> name, status |-> "active",
     timestamp |-> now, resolved_timestamp |-> NoTime, rule |-> r,
     sent |-> NoSends, resolved_cond |-> "none"]

\* AlertChannel.send_alert on every channel of _send_notifications: a disabled
\* channel returns False before sending, an enabled one attempts _send_alert.
SendNotifications(alert) ==
    [alert EXCEPT !.sent =
        [c \in Channels |->
            IF ~AlertChannels[c].enabled THEN alert.sent[c]
            ELSE IF alert.status = "resolved"
                 THEN [alert.sent[c] EXCEPT !.resolved = @ + 1]
                 ELSE [alert.sent[c] EXCEPT !.active = @ + 1]]]

\* alert_history.append(alert); if len > max_history: pop(0)
HistoryAppend(h, oid) ==
    LET h2 == Append(h, oid)
    IN IF Len(h2) > AlertHistoryCap THEN Tail(h2) ELSE h2

\* self.active_alerts[alert.id] = alert
ActivePut(active, id, oid) ==
    [k \in DOMAIN active \cup {id} |-> IF k = id THEN oid ELSE active[k]]

\* AlertingSystem._handle_alert(alert), for the object that becomes alert_objs[oid]
HandleAlert(alert) ==
    LET oid == Len(alert_objs) + 1
    IN /\ alert_objs' = Append(alert_objs, SendNotifications(alert))
       /\ active_alerts' = ActivePut(active_alerts, alert.id, oid)
       /\ alert_history' = HistoryAppend(alert_history, oid)

\* "for r in self.alert_rules: if r.name == alert.title: rule = r; break" (0: none)
RuleByTitle(title) ==
    IF \E r \in Rules : AlertRules[r].name = title
    THEN CHOOSE r \in Rules :
            /\ AlertRules[r].name = title
            /\ \A q \in Rules : AlertRules[q].name = title => r <= q
    ELSE 0

\* The ids _check_resolved_alerts resolves on a snapshot.
ResolvedIds(metrics) ==
    {id \in DOMAIN active_alerts :
        LET rule == RuleByTitle(alert_objs[active_alerts[id]].title)
        IN rule # 0 /\ ~ShouldTrigger(rule, metrics)}

\* ------------------------------------------------------- Resource Scaler

\* The default policies start_monitoring appends, in order.
DefaultPolicies == <<"cpu", "memory", "intensity">>

\* ScalingPolicy.cooldown per kind.
PolicyCooldown(kind) ==
    IF kind = "cpu" THEN ScaleCooldown
    ELSE IF kind = "memory" THEN ScaleCooldown + 1
    ELSE ScaleCooldown + 2

\* cpu_percent and memory_percent of the ResourceMetrics a pass collects.
RmSnapshots == [cpu : {80, 90}, memory : {50, 90}]
NoRmMetrics == [cpu |-> 0, memory |-> 0]

\* ResourceMonitor.max_history (3600), scaled.
MetricsHistoryCap == 1

\* No execute_scale was called in the pass yet.
NoRmCall == [policy |-> 0, result |-> "none"]

\* config.intensity values the model starts from: below the floor, just above it.
IntensityInits == {250, 320}

Max(a, b) == IF a >= b THEN a ELSE b

\* ------------------------------------------------------- Recovery Manager

\* ErrorEvent.severity values of the reported errors ("high" is what
\* _check_system_health reports).
Severities == {"medium", "high", "critical"}

\* The RecoveryAction objects: RestartMinerRecovery (max_attempts 3, cooldown 30 s),
\* ClearCacheRecovery (10, 5 s), ReduceResourceUsageRecovery (3, 60 s), scaled.
RecActionDefs ==
    <<[name |-> "restart_miner", max_attempts |-> RecMaxAttempts,
       cooldown |-> RecCooldown],
      [name |-> "clear_cache", max_attempts |-> RecMaxAttempts,
       cooldown |-> 0],
      [name |-> "reduce_resources", max_attempts |-> RecMaxAttempts,
       cooldown |-> 2 * RecCooldown]>>
RecActions == DOMAIN RecActionDefs

\* component_recoveries after the register_recovery_action calls of main.py
\* ("mining", "system", "mining"), and after registrations that use the default
\* component "general".
RegistryMain ==
    [c \in {"mining", "system"} |-> IF c = "mining" THEN <<1, 3>> ELSE <<2>>]
RegistryGeneral ==
    [c \in {"mining", "general"} |-> IF c = "mining" THEN <<1>> ELSE <<3, 2>>]
Registries == {RegistryMain, RegistryGeneral}

\* (component, severity) of the errors collaborators and the health check report.
ErrorInputs ==
    {<<"mining", "medium">>, <<"mining", "critical">>, <<"wallet", "medium">>,
     <<"system", "high">>}

\* What RecoveryAction._recover does on a call: return True, return False, raise.
RecOutcomes == {"ok", "fail", "raise"}

NoRecCall ==
    [called |-> FALSE, component |-> "none", severity |-> "none",
     eligible |-> FALSE, recent_all |-> 0, recent_own |-> 0,
     resolved |-> FALSE, visits |-> <<>>]

TypeOK ==
    /\ now \in Epoch..(Epoch + MaxTicks + MaxRecTicks)
    /\ switch_strategy \in Strategies
    /\ sw_running \in BOOLEAN
    /\ current_algorithm \in Algos \cup {"none"}
    /\ DOMAIN profitability_data \subseteq Algos
    /\ \A a \in DOMAIN profitability_data : profitability_data[a] \in Profits
    /\ Len(switch_history) <= SwitchHistoryCap
    /\ last_switch_time \in Time \cup {0}
    /\ upd_idx \in 1..Len(AlgoOrder)
    /\ upd_sleeping \in BOOLEAN
    /\ miner_algorithm \in Algos \cup {"none"}

\* The state after construction, with the recovery actions registered.
InitWith(registry, threads, intens) ==
    /\ now = Epoch
    /\ switch_strategy \in Strategies
    /\ sw_running = FALSE
    /\ current_algorithm = "none"
    /\ profitability_data = <<>>
    /\ switch_history = <<>>
    /\ last_switch_time = 0
    /\ upd_idx = 1
    /\ upd_sleeping = FALSE
    /\ gba = NoCall
    /\ miner_algorithm = "none"
    /\ prev_change = NoTime
    /\ last_change = NoTime
    /\ al_running = FALSE
    /\ al_pc = "ready"
    /\ al_rule = 1
    /\ al_metrics = NoMetrics
    /\ last_triggered = [r \in Rules |-> 0]
    /\ trigger_count = [r \in Rules |-> 0]
    /\ suppressed_until = [r \in Rules |-> 0]
    /\ alert_objs = <<>>
    /\ active_alerts = <<>>
    /\ alert_history = <<>>
    /\ rec_registry = registry
    /\ rec_last_attempt = [a \in RecActions |-> 0]
    /\ rec_success_count = [a \in RecActions |-> 0]
    /\ rec_failure_count = [a \in RecActions |-> 0]
    /\ error_history = <<>>
    /\ total_errors = 0
    /\ resolved_errors = 0
    /\ critical_errors = 0
    /\ rec_call = NoRecCall
    /\ rm_running = FALSE
    /\ rm_pc = "idle"
    /\ rm_policy = 1
    /\ rm_metrics = NoRmMetrics
    /\ rm_call = NoRmCall
    /\ scaling_policies = <<>>
    /\ sp_last_action = <<>>
    /\ sp_action_count = <<>>
    /\ scale_actions = 0
    /\ cpu_threads = threads
    /\ intensity = intens
    /\ al_faults = 0
    /\ channel_state = [c \in Channels |-> "sent"]
    /\ dispatch = NoDispatch
    /\ alive = {}
    /\ joining = {}
    /\ lock_owner = "none"
    /\ lk_pc = [t \in LockThreads |-> "idle"]
    /\ lk_arg = "none"
    /\ seen = "none"
    /\ ack = NoAck
    /\ metrics_history = <<>>
    /\ rc_pc = [t \in HandlerThreads |-> OutsideExecute]
    /\ loop_pos = [e \in Engines |-> [i \in LoopThreads |-> "none"]]
    /\ rec_mon = [running |-> FALSE, pos |-> "none", last_call |-> "none"]
    /\ he_stack = <<>>

\* The program as main.py sets it up.
Init == InitWith(RegistryMain, MaxThreads, 320)

\* The clock advances by one unit; update_interval (60 s) and check_interval
\* (30 s) are not longer than a unit, so a sleeping loop wakes up.
Tick ==
    /\ now < Epoch + MaxTicks
    /\ now' = now + 1
    /\ upd_sleeping' = FALSE
    /\ gba' = NoCall
    /\ al_pc' = IF al_pc = "sleep" THEN "ready" ELSE al_pc
    /\ UNCHANGED <<switch_strategy, sw_running, current_algorithm, profitability_data,
                   switch_history, last_switch_time, upd_idx, minerVars>>
    /\ UNCHANGED <<al_running, al_rule, al_metrics, last_triggered, trigger_count,
                   suppressed_until, alert_objs, active_alerts, alert_history>>
    /\ UNCHANGED extVars

\* ProfitSwitcher.start
SwitcherStart ==
    /\ ~sw_running
    /\ sw_running' = TRUE
    /\ gba' = NoCall
    /\ UNCHANGED <<now, switch_strategy, current_algorithm, profitability_data,
                   switch_history, last_switch_time, upd_idx, upd_sleeping, minerVars,
                   alertVars>>
    /\ UNCHANGED extVars

\* ProfitSwitcher.stop
SwitcherStop ==
    /\ sw_running
    /\ sw_running' = FALSE
    /\ gba' = NoCall
    /\ UNCHANGED <<now, switch_strategy, current_algorithm, profitability_data,
                   switch_history, last_switch_time, upd_idx, upd_sleeping, minerVars,
                   alertVars>>
    /\ UNCHANGED extVars

\* One step of _update_profitability_data: the next algorithm's ProfitabilityData
\* is replaced under the lock by what _calculate_profitability returned.  The
\* flag is read by "while self.running" only, before the first algorithm.
UpdateProfitabilityFrom(profits) ==
    /\ sw_running \/ upd_idx > 1
    /\ ~upd_sleeping
    /\ \E p \in profits :
         LET a == AlgoOrder[upd_idx]
         IN profitability_data' =
              [x \in DOMAIN profitability_data \cup {a} |->
                  IF x = a THEN p ELSE profitability_data[x]]
    /\ upd_idx' = IF upd_idx = Len(AlgoOrder) THEN 1 ELSE upd_idx + 1
    /\ upd_sleeping' = (upd_idx = Len(AlgoOrder))
    /\ gba' = NoCall
    /\ UNCHANGED <<now, switch_strategy, sw_running, current_algorithm,
                   switch_history, last_switch_time, minerVars, alertVars>>
    /\ UNCHANGED extVars

\* The step for the profits the estimator may produce.
UpdateProfitability == UpdateProfitabilityFrom(Profits)

\* ProfitSwitcher.get_best_algorithm, called by a collaborator: it reads the state
\* and changes none of it.
GetBestAlgorithm ==
    /\ gba' = GetBestResult
    /\ UNCHANGED <<now, switch_strategy, sw_running, current_algorithm,
                   profitability_data, switch_history, last_switch_time, upd_idx,
                   upd_sleeping, minerVars,
                   alertVars>>
    /\ UNCHANGED extVars

\* append, then "if len > 100: keep the last 100"
AppendCapped(h, e) ==
    LET h2 == Append(h, e)
    IN IF Len(h2) > SwitchHistoryCap
       THEN SubSeq(h2, Len(h2) - SwitchHistoryCap + 1, Len(h2))
       ELSE h2

\* ProfitSwitcher.record_switch(from_algorithm, to_algorithm)
RecordSwitch(from_algorithm, to_algorithm) ==
    /\ switch_history' =
          AppendCapped(switch_history,
                       [ts |-> now, from |-> from_algorithm, to |-> to_algorithm])
    /\ current_algorithm' = to_algorithm
    /\ last_switch_time' = now
    /\ gba' = NoCall
    /\ UNCHANGED <<now, switch_strategy, sw_running, profitability_data, upd_idx,
                   upd_sleeping, minerVars,
                   alertVars>>
    /\ UNCHANGED extVars

\* A collaborator records a switch from the algorithm the switcher holds to
\* another one.
RecordSwitchCall ==
    \E to_algorithm \in Algos \ {current_algorithm} :
        RecordSwitch(current_algorithm, to_algorithm)

\* The switcher with its update loop running and its callers.
NextSwitch ==
    \/ Tick
    \/ SwitcherStart
    \/ UpdateProfitability
    \/ GetBestAlgorithm
    \/ RecordSwitchCall

SpecSwitch == Init /\ [][NextSwitch]_vars

\* profit_per_hour values on both sides of a loss-making current algorithm:
\* revenue below the electricity cost gives a negative profit.
LossProfits == {-200, -100, 100, 115}

\* The update step where the estimates may be losses.
UpdateProfitabilityLoss == UpdateProfitabilityFrom(LossProfits)

\* The switcher under the threshold and gradual strategies, with estimates that
\* may be negative.
NextDecision ==
    \/ Tick
    \/ SwitcherStart
    \/ UpdateProfitabilityLoss
    \/ GetBestAlgorithm
    \/ RecordSwitchCall

InitDecision == Init /\ switch_strategy \in {"threshold", "gradual"}

SpecDecision == InitDecision /\ [][NextDecision]_vars

\* ----------------------------------------------- Alerting System actions

\* AlertingSystem.start_monitoring
AlertStart ==
    /\ ~al_running
    /\ al_running' = TRUE
    /\ UNCHANGED <<now, switcherVars, minerVars, al_pc, al_rule, al_metrics,
                   last_triggered, trigger_count, suppressed_until, alert_objs,
                   active_alerts, alert_history>>
    /\ UNCHANGED extVars

\* AlertingSystem.stop_monitoring: the loop leaves at its next "while self.running"
AlertStop ==
    /\ al_running
    /\ al_running' = FALSE
    /\ UNCHANGED <<now, switcherVars, minerVars, al_pc, al_rule, al_metrics,
                   last_triggered, trigger_count, suppressed_until, alert_objs,
                   active_alerts, alert_history>>
    /\ UNCHANGED extVars

\* _monitoring_loop: "while self.running", then the metrics of the pass are read.
AlertPassBegin ==
    /\ al_running
    /\ al_pc = "ready"
    /\ \E m \in Snapshots : al_metrics' = m
    /\ al_pc' = "rules"
    /\ al_rule' = 1
    /\ UNCHANGED <<now, switcherVars, minerVars, al_running, last_triggered,
                   trigger_count, suppressed_until, alert_objs, active_alerts,
                   alert_history>>
    /\ UNCHANGED extVars

\* One turn of "for rule in self.alert_rules": should_trigger, trigger and
\* _handle_alert for the rule the loop is at.
AlertRuleStep ==
    /\ al_pc = "rules"
    /\ LET r == al_rule
       IN IF ShouldTrigger(r, al_metrics)
          THEN /\ Len(alert_objs) < MaxAlerts
               /\ last_triggered' = [last_triggered EXCEPT ![r] = now]
               /\ trigger_count' = [trigger_count EXCEPT ![r] = @ + 1]
               /\ HandleAlert(NewAlert(AlertRules[r].name, r))
          ELSE UNCHANGED <<last_triggered, trigger_count, alert_objs, active_alerts,
                           alert_history>>
    /\ IF al_rule = Len(AlertRules)
       THEN al_pc' = "reconcile" /\ al_rule' = 1
       ELSE al_pc' = "rules" /\ al_rule' = al_rule + 1
    /\ UNCHANGED <<now, switcherVars, minerVars, al_running, al_metrics,
                   suppressed_until>>
    /\ UNCHANGED extVars

\* AlertingSystem._check_resolved_alerts(metrics), then time.sleep(check_interval)
AlertReconcile ==
    /\ al_pc = "reconcile"
    /\ LET gone == ResolvedIds(al_metrics)
           oids == {active_alerts[id] : id \in gone}
       IN /\ alert_objs' =
               [o \in DOMAIN alert_objs |->
                   IF o \in oids
                   THEN SendNotifications(
                          [alert_objs[o] EXCEPT
                              !.status = "resolved",
                              !.resolved_timestamp = now,
                              !.resolved_cond =
                                  IF alert_objs[o].rule = 0 THEN "none"
                                  ELSE IF EvaluateCondition(alert_objs[o].rule, al_metrics)
                                       THEN "true" ELSE "false"])
                   ELSE alert_objs[o]]
          /\ active_alerts' = [id \in DOMAIN active_alerts \ gone |-> active_alerts[id]]
    /\ al_pc' = "sleep"
    /\ UNCHANGED <<now, switcherVars, minerVars, al_running, al_rule, al_metrics,
                   last_triggered, trigger_count, suppressed_until, alert_history>>
    /\ UNCHANGED extVars

\* AlertingSystem.suppress_alert_rule(rule_name, duration): AlertRule.suppress on
\* the first rule of that name.
SuppressAlertRule ==
    /\ \E title \in {AlertRules[r].name : r \in Rules}, duration \in 1..BaseCooldown :
         suppressed_until' =
            [suppressed_until EXCEPT ![RuleByTitle(title)] = now + duration]
    /\ UNCHANGED <<now, switcherVars, minerVars, al_running, al_pc, al_rule, al_metrics,
                   last_triggered, trigger_count, alert_objs, active_alerts,
                   alert_history>>
    /\ UNCHANGED extVars

\* AlertingSystem.acknowledge_alert(alert_id), for an id of the active set
AcknowledgeAlert ==
    /\ \E id \in DOMAIN active_alerts :
         /\ alert_objs[active_alerts[id]].status # "suppressed"
         /\ alert_objs' = [alert_objs EXCEPT ![active_alerts[id]].status = "suppressed"]
    /\ UNCHANGED <<now, switcherVars, minerVars, al_running, al_pc, al_rule, al_metrics,
                   last_triggered, trigger_count, suppressed_until, active_alerts,
                   alert_history>>
    /\ UNCHANGED extVars

\* AlertingSystem.create_manual_alert(title, ...): id "manual_<int(time)>"
CreateManualAlert ==
    /\ Len(alert_objs) < MaxAlerts
    /\ \E title \in {"Operator note", "High CPU Usage"} :
         HandleAlert([NewAlert(title, 0) EXCEPT !.id = AlertId("manual", now)])
    /\ UNCHANGED <<now, switcherVars, minerVars, al_running, al_pc, al_rule, al_metrics,
                   last_triggered, trigger_count, suppressed_until>>
    /\ UNCHANGED extVars

\* "if rule.should_trigger(metrics):" of the loop's turn on a rule, as a step
\* of its own: the loop thread holds no lock, so another thread may run before
\* the body of the if.
AlertRuleCheck ==
    /\ al_pc = "rules"
    /\ IF ShouldTrigger(al_rule, al_metrics)
       THEN al_pc' = "trigger" /\ al_rule' = al_rule
       ELSE IF al_rule = Len(AlertRules)
            THEN al_pc' = "reconcile" /\ al_rule' = 1
            ELSE al_pc' = "rules" /\ al_rule' = al_rule + 1
    /\ UNCHANGED <<now, switcherVars, minerVars, al_running, al_metrics,
                   last_triggered, trigger_count, suppressed_until, alert_objs,
                   active_alerts, alert_history>>
    /\ UNCHANGED extVars

\* "alert = rule.trigger(); self._handle_alert(alert)": the body of the
\* if, which does not look at the rule's state again.
AlertRuleTrigger ==
    /\ al_pc = "trigger"
    /\ Len(alert_objs) < MaxAlerts
    /\ LET r == al_rule
       IN /\ last_triggered' = [last_triggered EXCEPT ![r] = now]
          /\ trigger_count' = [trigger_count EXCEPT ![r] = @ + 1]
          /\ HandleAlert(NewAlert(AlertRules[r].name, r))
    /\ IF al_rule = Len(AlertRules)
       THEN al_pc' = "reconcile" /\ al_rule' = 1
       ELSE al_pc' = "rules" /\ al_rule' = al_rule + 1
    /\ UNCHANGED <<now, switcherVars, minerVars, al_running, al_metrics,
                   suppressed_until>>
    /\ UNCHANGED extVars

\* The monitoring loop and the operator's rule suppression.
NextAlert ==
    \/ Tick
    \/ AlertStart
    \/ AlertStop
    \/ AlertPassBegin
    \/ AlertRuleStep
    \/ AlertReconcile
    \/ SuppressAlertRule

\* The alerting system alone: the switcher's strategy is of no account here.
InitAlert == Init /\ switch_strategy = "threshold"

SpecAlert == InitAlert /\ [][NextAlert]_vars

\* The loop thread statement by statement, with an operator's thread that
\* suppresses rules.
NextAlertRace ==
    \/ Tick
    \/ AlertStart
    \/ AlertPassBegin
    \/ AlertRuleCheck
    \/ AlertRuleTrigger
    \/ AlertReconcile
    \/ SuppressAlertRule

SpecAlertRace == InitAlert /\ [][NextAlertRace]_vars

\* The same with the operator's calls on alerts.
NextAlertApi ==
    \/ NextAlert
    \/ AcknowledgeAlert
    \/ CreateManualAlert

SpecAlertApi == InitAlert /\ [][NextAlertApi]_vars

\* The ids an operator may pass to acknowledge_alert: the id of every alert ever
\* created, and one that no alert has.
AckIds == {alert_objs[o].id : o \in DOMAIN alert_objs} \cup {AlertId("unknown", NoTime)}

\* acknowledge_alert that looks the id up among all alerts ever created.
AckTargetAnyAlert(id) ==
    IF id \in DOMAIN active_alerts THEN active_alerts[id]
    ELSE IF \E o \in DOMAIN alert_objs : alert_objs[o].id = id
    THEN CHOOSE o \in DOMAIN alert_objs : alert_objs[o].id = id
    ELSE 0

\* "if alert_id in self.active_alerts: alert = self.active_alerts[alert_id]"
\* (0: the id is not in the active set).
AckTarget(id) == IF id \in DOMAIN active_alerts THEN active_alerts[id] ELSE 0

\* AlertingSystem.acknowledge_alert(alert_id), for any id: the alert of an active
\* id becomes suppressed and True is returned, else False.
AcknowledgeCall ==
    /\ ack = NoAck
    /\ \E id \in AckIds :
         LET o == AckTarget(id)
         IN /\ alert_objs' = IF o # 0 THEN [alert_objs EXCEPT ![o].status = "suppressed"]
                                      ELSE alert_objs
            /\ ack' = [id |-> id, ret |-> IF o # 0 THEN "true" ELSE "false"]
    /\ UNCHANGED <<now, switcherVars, minerVars, al_running, al_pc, al_rule, al_metrics,
                   last_triggered, trigger_count, suppressed_until, active_alerts,
                   alert_history, recoveryVars, scalerVars, faultVars, dispatchVars,
                   stopVars, lockVars, logVars, threadVars>>

\* The caller of acknowledge_alert has its answer.
AcknowledgeReturn ==
    /\ ack # NoAck
    /\ ack' = NoAck
    /\ UNCHANGED <<now, switcherVars, minerVars, alertVars, recoveryVars, scalerVars,
                   faultVars, dispatchVars, stopVars, lockVars, logVars, threadVars>>

\* The alerting loop and the operator's other calls, made while no
\* acknowledge_alert call is in progress.
OutsideAcknowledge(A) == ack = NoAck /\ A

\* The alerting loop with an operator who suppresses rules, creates alerts and
\* acknowledges them.
NextAlertOps ==
    \/ OutsideAcknowledge(Tick)
    \/ OutsideAcknowledge(AlertStart)
    \/ OutsideAcknowledge(AlertPassBegin)
    \/ OutsideAcknowledge(AlertRuleStep)
    \/ OutsideAcknowledge(AlertReconcile)
    \/ OutsideAcknowledge(SuppressAlertRule)
    \/ OutsideAcknowledge(CreateManualAlert)
    \/ AcknowledgeCall
    \/ AcknowledgeReturn

SpecAlertOps == InitAlert /\ [][NextAlertOps]_vars

\* ------------------------------------------------------------ Mining loop

\* One iteration of AdvancedMiner._mining_loop: poll get_best_algorithm and, as the
\* returned name never equals the algorithm OBJECT the miner holds, call
\* _switch_algorithm, which replaces the object by a new instance of that name.
\* An exception of get_best_algorithm is caught by the loop.
MinerIteration ==
    LET r == GetBestResult
    IN /\ gba' = r
       /\ IF r.ret = "error"
          THEN UNCHANGED minerVars
          ELSE /\ miner_algorithm' = r.ret
               /\ IF miner_algorithm # "none" /\ miner_algorithm # r.ret
                  THEN prev_change' = last_change /\ last_change' = now
                  ELSE UNCHANGED <<prev_change, last_change>>
       /\ UNCHANGED <<now, switch_strategy, sw_running, current_algorithm,
                      profitability_data, switch_history, last_switch_time, upd_idx,
                      upd_sleeping, alertVars>>
       /\ UNCHANGED extVars

\* The composed program: nothing in the repository calls record_switch.
NextMiner ==
    \/ Tick
    \/ SwitcherStart
    \/ SwitcherStop
    \/ UpdateProfitability
    \/ MinerIteration

SpecMiner == Init /\ [][NextMiner]_vars

\* ----------------------------------------------- Recovery Manager actions

\* The manager's mutable state as one record, threaded through a handle_error call.
RecState ==
    [last_attempt |-> rec_last_attempt, success_count |-> rec_success_count,
     failure_count |-> rec_failure_count, history |-> error_history]

\* can_attempt without the failure ceiling.
CanAttemptCooldownOnly(st, a) ==
    now - st.last_attempt[a] > RecActionDefs[a].cooldown

\* can_attempt with >= in place of >.
CanAttemptAtCooldown(st, a) ==
    /\ now - st.last_attempt[a] >= RecActionDefs[a].cooldown
    /\ st.failure_count[a] < RecActionDefs[a].max_attempts

\* RecoveryAction.can_attempt
CanAttempt(st, a) ==
    /\ now - st.last_attempt[a] > RecActionDefs[a].cooldown
    /\ st.failure_count[a] < RecActionDefs[a].max_attempts

\* execute that counts what _recover returns and not what it raises.
ExecuteRaiseUncounted(st, a, outcome) ==
    [st EXCEPT !.last_attempt[a] = now,
               !.success_count[a] = IF outcome = "ok" THEN @ + 1 ELSE @,
               !.failure_count[a] = IF outcome = "fail" THEN @ + 1 ELSE @]

\* RecoveryAction.execute for an action that can attempt: last_attempt is stamped,
\* then the outcome of _recover is counted.
Execute(st, a, outcome) ==
    [st EXCEPT !.last_attempt[a] = now,
               !.success_count[a] = IF outcome = "ok" THEN @ + 1 ELSE @,
               !.failure_count[a] = IF outcome = "ok" THEN @ ELSE @ + 1]

\* The loop of _attempt_recovery without its try/except: the exception of an
\* action ends the recovery.
RECURSIVE AttemptListRaiseEnds(_, _, _, _)
AttemptListRaiseEnds(r, actions, list, oc) ==
    IF actions = <<>> \/ r.done THEN r
    ELSE LET a == Head(actions)
             can == CanAttempt(r.st, a)
             visit == [action |-> a, list |-> list,
                       failures_before |-> r.st.failure_count[a],
                       since_last |-> now - r.st.last_attempt[a],
                       result |-> IF can THEN oc[a] ELSE "skipped"]
             st2 == IF can THEN Execute(r.st, a, oc[a]) ELSE r.st
         IN AttemptListRaiseEnds([st |-> st2,
                                  visits |-> Append(r.visits, visit),
                                  done |-> can /\ oc[a] # "fail"],
                                 Tail(actions), list, oc)

\* One "for action in ...: if action.can_attempt(): ..." loop of _attempt_recovery.
\* r = [st, visits, done]; a visit records the action, the list it came from, the
\* counters the action had and what happened.
RECURSIVE AttemptList(_, _, _, _)
AttemptList(r, actions, list, oc) ==
    IF actions = <<>> \/ r.done THEN r
    ELSE LET a == Head(actions)
             can == CanAttempt(r.st, a)
             visit == [action |-> a, list |-> list,
                       failures_before |-> r.st.failure_count[a],
                       since_last |-> now - r.st.last_attempt[a],
                       result |-> IF can THEN oc[a] ELSE "skipped"]
             st2 == IF can THEN Execute(r.st, a, oc[a]) ELSE r.st
         IN AttemptList([st |-> st2,
                         visits |-> Append(r.visits, visit),
                         done |-> can /\ oc[a] = "ok"],
                        Tail(actions), list, oc)

\* self.component_recoveries.get(component, [])
ActionsOf(component) ==
    IF component \in DOMAIN rec_registry THEN rec_registry[component] ELSE <<>>

\* The general actions tried before the component's.
AttemptGeneralFirst(st, component, oc) ==
    LET r1 == AttemptList([st |-> st, visits |-> <<>>, done |-> FALSE],
                          ActionsOf("general"), "general", oc)
    IN AttemptList(r1, ActionsOf(component), "component", oc)

\* ErrorRecoveryManager._attempt_recovery: the component's actions, then "general".
AttemptRecovery(st, component, oc) ==
    LET r1 == AttemptList([st |-> st, visits |-> <<>>, done |-> FALSE],
                          ActionsOf(component), "component", oc)
    IN AttemptList(r1, ActionsOf("general"), "general", oc)

\* The severity test that lets every severity through.
SeverityBlocksNever(severity) == severity = "none"

\* "if error.severity == ErrorSeverity.CRITICAL: return False"
SeverityBlocks(severity) == severity = "critical"

\* recent_errors of _should_attempt_recovery: every event of the history younger
\* than 5 minutes, whatever its component.
RecentErrors(history) ==
    {i \in 1..Len(history) : now - history[i].timestamp < BurstWindow}

\* The events of recent_errors that belong to one component.
RecentOwn(history, component) ==
    {i \in RecentErrors(history) : history[i].component = component}

\* ErrorRecoveryManager._should_attempt_recovery
ShouldAttemptRecovery(history, severity) ==
    /\ ~SeverityBlocks(severity)
    /\ ~(Cardinality(RecentErrors(history)) > BurstLimit)

\* error_history.append(event); if len > max_history: pop(0)
ErrorHistoryAppend(history, event) ==
    LET h2 == Append(history, event)
    IN IF Len(h2) > ErrorHistoryCap THEN Tail(h2) ELSE h2

\* The actions a handle_error call for a component may ask to recover.
Consulted(component) ==
    LET of(c) == {ActionsOf(c)[i] : i \in DOMAIN ActionsOf(c)}
    IN of(component) \cup of("general")

\* "config.intensity > 0.5", in thousandths as IntensityFloor.
ReduceIntensityAbove == 500

\* A reduction that halves the threads without the floor of one.
ReduceResourceUsageNoFloor(cfg) ==
    [threads |-> cfg.threads \div 2,
     intensity |-> (cfg.intensity * 8) \div 10]

\* ReduceResourceUsageRecovery._recover on the miner's config: cpu_threads above
\* one becomes max(1, cpu_threads // 2), intensity above 0.5 is multiplied by 0.8.
ReduceResourceUsage(cfg) ==
    [threads |-> IF cfg.threads > 1 THEN Max(1, cfg.threads \div 2) ELSE cfg.threads,
     intensity |-> IF cfg.intensity > ReduceIntensityAbove THEN (cfg.intensity * 8) \div 10
                   ELSE cfg.intensity]

\* The mining configuration after the visits of one _attempt_recovery: each
\* reduce_resources action that returned True has reduced it.
RECURSIVE ConfigAfter(_, _)
ConfigAfter(visits, cfg) ==
    IF visits = <<>> THEN cfg
    ELSE LET v == Head(visits)
         IN ConfigAfter(Tail(visits),
                        IF /\ RecActionDefs[v.action].name = "reduce_resources"
                           /\ v.result = "ok"
                        THEN ReduceResourceUsage(cfg) ELSE cfg)

\* ErrorRecoveryManager.handle_error(component, error, severity): counters,
\* history, eligibility, recovery.  Its last statement, _check_system_health,
\* changes no state itself: when psutil shows an overload it calls
\* handle_error("system", ..., HIGH), a complete call made after this one's work,
\* which is the step of this action with that input.
HandleErrorWork(inputs, limit) ==
    /\ total_errors < limit
    /\ \E inp \in inputs :
       \E oc \in [Consulted(inp[1]) -> RecOutcomes] :
          LET component == inp[1]
              severity == inp[2]
              event == [timestamp |-> now, severity |-> severity,
                        component |-> component,
                        recovery_attempts |-> 0, resolved |-> FALSE]
              h2 == ErrorHistoryAppend(error_history, event)
              st1 == [RecState EXCEPT !.history = h2]
              eligible == ShouldAttemptRecovery(h2, severity)
              rr == IF eligible
                    THEN AttemptRecovery(st1, component, oc)
                    ELSE [st |-> st1, visits |-> <<>>, done |-> FALSE]
              hlast == Len(h2)
          IN /\ total_errors' = total_errors + 1
             /\ critical_errors' =
                   IF severity = "critical" THEN critical_errors + 1
                                            ELSE critical_errors
             /\ rec_last_attempt' = rr.st.last_attempt
             /\ rec_success_count' = rr.st.success_count
             /\ rec_failure_count' = rr.st.failure_count
             /\ error_history' =
                   IF rr.done
                   THEN [h2 EXCEPT ![hlast].resolved = TRUE,
                                   ![hlast].recovery_attempts = @ + 1]
                   ELSE h2
             /\ resolved_errors' =
                   IF rr.done THEN resolved_errors + 1 ELSE resolved_errors
             /\ rec_call' = [called |-> TRUE, component |-> component,
                             severity |-> severity,
                             eligible |-> eligible,
                             recent_all |-> Cardinality(RecentErrors(h2)),
                             recent_own |-> Cardinality(RecentOwn(h2, component)),
                             resolved |-> rr.done,
                             visits |-> rr.visits]
             /\ LET cfg == ConfigAfter(rr.visits, [threads |-> cpu_threads,
                                                   intensity |-> intensity])
                IN cpu_threads' = cfg.threads /\ intensity' = cfg.intensity
    /\ UNCHANGED <<now, switcherVars, minerVars, alertVars, rec_registry, rm_running,
                   rm_pc, rm_policy, rm_metrics, rm_call, scaling_policies,
                   sp_last_action, sp_action_count, scale_actions,
                   faultVars, stopVars, dispatchVars, lockVars, opsVars, logVars>>

\* A handle_error call taken as one step, limit times at most.
HandleErrorUpTo(inputs, limit) ==
    /\ HandleErrorWork(inputs, limit)
    /\ UNCHANGED threadVars

\* handle_error for the errors of a set, MaxErrors times at most.
HandleErrorFrom(inputs) == HandleErrorUpTo(inputs, MaxErrors)

\* handle_error for every error the collaborators and the health check report.
HandleError == HandleErrorFrom(ErrorInputs)

\* handle_error for errors no action is tried for (a critical one, and one of a
\* component without actions), once more than error_history holds.
HandleUnrecoveredError ==
    HandleErrorUpTo({<<"mining", "critical">>, <<"wallet", "medium">>},
                    ErrorHistoryCap + 1)

\* handle_error("mining", e) with the default severity MEDIUM.
HandleMiningError == HandleErrorFrom({<<"mining", "medium">>})

\* RecoveryAction.execute statement by statement, for handle_error calls made
\* from several threads; the manager and its actions hold no lock.
\* "if not self.can_attempt(): return False": the thread goes on when it may.
ExecuteCheck(t) ==
    /\ rc_pc[t] = OutsideExecute
    /\ \E a \in RecActions :
         /\ rec_success_count[a] < RecMaxAttempts
         /\ CanAttempt(RecState, a)
         /\ rc_pc' = [rc_pc EXCEPT ![t] = [at |-> "passed", action |-> a]]
    /\ UNCHANGED <<now, switcherVars, minerVars, alertVars, recoveryVars, scalerVars,
                   faultVars, dispatchVars, stopVars, lockVars, opsVars, logVars, loop_pos, rec_mon,
                   he_stack>>

\* "self.last_attempt = time.time()", after which _recover runs.
ExecuteStamp(t) ==
    /\ rc_pc[t].at = "passed"
    /\ rec_last_attempt' = [rec_last_attempt EXCEPT ![rc_pc[t].action] = now]
    /\ rc_pc' = [rc_pc EXCEPT ![t].at = "recovering"]
    /\ UNCHANGED <<now, switcherVars, minerVars, alertVars, rec_registry,
                   rec_success_count, rec_failure_count, error_history, total_errors,
                   resolved_errors, critical_errors, rec_call, scalerVars,
                   faultVars, dispatchVars, stopVars, lockVars, opsVars, logVars, loop_pos, rec_mon,
                   he_stack>>

\* _recover has returned or raised: success_count or failure_count is
\* incremented and execute is left.
ExecuteCount(t) ==
    /\ rc_pc[t].at = "recovering"
    /\ \E outcome \in RecOutcomes :
         LET a == rc_pc[t].action
         IN /\ rec_success_count' =
                  [rec_success_count EXCEPT ![a] = IF outcome = "ok" THEN @ + 1 ELSE @]
            /\ rec_failure_count' =
                  [rec_failure_count EXCEPT ![a] = IF outcome = "ok" THEN @ ELSE @ + 1]
    /\ rc_pc' = [rc_pc EXCEPT ![t] = OutsideExecute]
    /\ UNCHANGED <<now, switcherVars, minerVars, alertVars, rec_registry,
                   rec_last_attempt, error_history, total_errors,
                   resolved_errors, critical_errors, rec_call, scalerVars,
                   faultVars, dispatchVars, stopVars, lockVars, opsVars, logVars, loop_pos, rec_mon,
                   he_stack>>

ExecuteChecks == \E t \in HandlerThreads : ExecuteCheck(t)
ExecuteStamps == \E t \in HandlerThreads : ExecuteStamp(t)
ExecuteCounts == \E t \in HandlerThreads : ExecuteCount(t)

\* The clock advances by one unit while the manager is idle.
RecTick ==
    /\ now < Epoch + MaxRecTicks
    /\ now' = now + 1
    /\ rec_call' = NoRecCall
    /\ UNCHANGED <<switcherVars, minerVars, alertVars, rec_registry, rec_last_attempt,
                   rec_success_count, rec_failure_count, error_history, total_errors,
                   resolved_errors, critical_errors, scalerVars, faultVars, stopVars, dispatchVars,
                   lockVars, opsVars, logVars, threadVars>>

NextRecovery ==
    \/ RecTick
    \/ HandleError

\* The recovery manager alone, after the registrations.
InitRecovery ==
    /\ \E registry \in Registries : InitWith(registry, MaxThreads, 320)
    /\ switch_strategy = "threshold"

SpecRecovery == InitRecovery /\ [][NextRecovery]_vars

\* The threads inside handle_error's recovery, statement by statement.
NextRecoveryRace ==
    \/ RecTick
    \/ ExecuteChecks
    \/ ExecuteStamps
    \/ ExecuteCounts

SpecRecoveryRace == InitAlert /\ [][NextRecoveryRace]_vars

\* The readings _check_system_health takes, in order: memory, CPU, disk.
HealthChecks == 3

\* handle_error calls nested on one thread's stack the model follows.
MaxCallDepth == 3

\* handle_error is called from outside: its work is done and its
\* _check_system_health begins with the first reading.
HandleErrorEnter ==
    /\ he_stack = <<>>
    /\ HandleErrorWork(ErrorInputs, MaxCallDepth)
    /\ he_stack' = <<1>>
    /\ UNCHANGED <<rc_pc, loop_pos, rec_mon>>

\* The reading the innermost health check is at lies above its threshold:
\* handle_error("system", ..., HIGH) is called from inside it, and does
\* its work and begins a health check of its own.
HealthOverload ==
    /\ he_stack # <<>>
    /\ Len(he_stack) < MaxCallDepth
    /\ he_stack[Len(he_stack)] <= HealthChecks
    /\ HandleErrorWork({<<"system", "high">>}, MaxCallDepth)
    /\ he_stack' = Append([he_stack EXCEPT ![Len(he_stack)] = @ + 1], 1)
    /\ UNCHANGED <<rc_pc, loop_pos, rec_mon>>

\* The stack changes and nothing else.
HealthMove(stack) ==
    /\ he_stack' = stack
    /\ UNCHANGED <<now, switcherVars, minerVars, alertVars, recoveryVars, scalerVars,
                   faultVars, dispatchVars, stopVars, lockVars, opsVars, logVars, rc_pc,
                   loop_pos, rec_mon>>

\* The reading lies below its threshold: the next reading is taken.
HealthPass ==
    /\ he_stack # <<>>
    /\ he_stack[Len(he_stack)] <= HealthChecks
    /\ HealthMove([he_stack EXCEPT ![Len(he_stack)] = @ + 1])

\* The three readings are done: _check_system_health and the handle_error
\* that called it return.
HealthReturn ==
    /\ he_stack # <<>>
    /\ he_stack[Len(he_stack)] > HealthChecks
    /\ HealthMove(SubSeq(he_stack, 1, Len(he_stack) - 1))

\* One thread's handle_error calls with the health checks they end in.
NextHealth ==
    \/ HandleErrorEnter
    \/ HealthOverload
    \/ HealthPass
    \/ HealthReturn

SpecHealth == InitAlert /\ [][NextHealth]_vars

\* ------------------------------------------------ Resource Scaler actions

\* A loop that never looks at its flag.
LoopGoesOnForever(running) == TRUE

\* "while self.running:" at the top of an engine's loop.
LoopGoesOn(running) == running

\* An append that drops the newest entry when the log is full.
MetricsAppendDropNewest(h, m) ==
    LET h2 == Append(h, m)
    IN IF Len(h2) > MetricsHistoryCap THEN SubSeq(h2, 1, Len(h2) - 1) ELSE h2

\* metrics_history.append(metrics); if len > max_history: pop(0)
MetricsAppend(h, m) ==
    LET h2 == Append(h, m)
    IN IF Len(h2) > MetricsHistoryCap THEN Tail(h2) ELSE h2

\* ScalingPolicy._evaluate_condition of each kind.
ScaleCondition(kind, metrics) ==
    IF kind = "cpu" THEN metrics.cpu > CpuScaleThreshold
    ELSE IF kind = "memory" THEN metrics.memory > MemoryScaleThreshold
    ELSE metrics.cpu > IntensityScaleThreshold
            \/ metrics.memory > IntensityScaleThreshold

\* A cooldown check that ends one clock unit early.
ScaleInCooldownEarly(k) ==
    now - sp_last_action[k] < PolicyCooldown(scaling_policies[k]) - 1

\* "if time.time() - self.last_action < self.cooldown: return False"
ScaleInCooldown(k) ==
    now - sp_last_action[k] < PolicyCooldown(scaling_policies[k])

\* ScalingPolicy.should_scale
ShouldScale(k, metrics) ==
    IF ScaleInCooldown(k) THEN FALSE
    ELSE ScaleCondition(scaling_policies[k], metrics)

\* The actions without their floors: threads - 1 and 0.9 * intensity.
ScaleActionNoFloor(kind) ==
    IF kind = "cpu"
    THEN [success |-> TRUE, threads |-> cpu_threads - 1, intensity |-> intensity]
    ELSE IF kind = "memory"
    THEN [success |-> TRUE, threads |-> cpu_threads, intensity |-> intensity]
    ELSE [success |-> TRUE, threads |-> cpu_threads,
          intensity |-> (intensity * 9) \div 10]

\* _scale_action of each kind as [success, threads, intensity]: the CPU policy
\* sets max(1, threads - 1), the intensity policy max(0.3, 0.9 * intensity), both
\* succeed only if the value changes; the memory policy collects garbage.
ScaleAction(kind) ==
    IF kind = "cpu"
    THEN LET new_threads == Max(1, cpu_threads - 1)
         IN [success |-> new_threads # cpu_threads, threads |-> new_threads,
             intensity |-> intensity]
    ELSE IF kind = "memory"
    THEN [success |-> TRUE, threads |-> cpu_threads, intensity |-> intensity]
    ELSE LET new_intensity == Max(IntensityFloor, (intensity * 9) \div 10)
         IN [success |-> new_intensity # intensity, threads |-> cpu_threads,
             intensity |-> new_intensity]

\* execute_scale that stamps last_action whether or not the action succeeded.
ExecuteScaleAlwaysStamp(k, metrics) ==
    IF ShouldScale(k, metrics)
    THEN LET act == ScaleAction(scaling_policies[k])
         IN [ret |-> act.success, last_action |-> now,
             action_count |-> sp_action_count[k] + 1,
             threads |-> act.threads, intensity |-> act.intensity]
    ELSE [ret |-> FALSE, last_action |-> sp_last_action[k],
          action_count |-> sp_action_count[k],
          threads |-> cpu_threads, intensity |-> intensity]

\* ScalingPolicy.execute_scale(metrics) of policy k: what it returns and what it
\* leaves in the policy and in the mining configuration.
ExecuteScale(k, metrics) ==
    IF ShouldScale(k, metrics)
    THEN LET act == ScaleAction(scaling_policies[k])
         IN [ret |-> act.success,
             last_action |-> IF act.success THEN now ELSE sp_last_action[k],
             action_count |-> IF act.success THEN sp_action_count[k] + 1
                                             ELSE sp_action_count[k],
             threads |-> act.threads, intensity |-> act.intensity]
    ELSE [ret |-> FALSE, last_action |-> sp_last_action[k],
          action_count |-> sp_action_count[k],
          threads |-> cpu_threads, intensity |-> intensity]

\* ResourceMonitor.start_monitoring(miner): the default policies are appended and
\* the loop thread is started.
RmStartUpTo(limit) ==
    /\ ~rm_running
    /\ rm_pc = "idle"
    /\ Len(scaling_policies) + Len(DefaultPolicies) <= limit
    /\ scaling_policies' = scaling_policies \o DefaultPolicies
    /\ sp_last_action' = sp_last_action \o [i \in 1..Len(DefaultPolicies) |-> 0]
    /\ sp_action_count' = sp_action_count \o [i \in 1..Len(DefaultPolicies) |-> 0]
    /\ rm_running' = TRUE
    /\ rm_pc' = "ready"
    /\ UNCHANGED <<now, switcherVars, minerVars, alertVars, recoveryVars, faultVars,
                   stopVars, dispatchVars, rm_policy,
                   rm_metrics, rm_call, scale_actions, cpu_threads, intensity,
                   lockVars, opsVars, logVars, threadVars>>

\* start_monitoring while the monitor holds no policy yet.
RmStart == RmStartUpTo(MaxPolicies)

\* ResourceMonitor.stop_monitoring: the flag is cleared; join(timeout=5) waits for
\* the loop thread and touches nothing.
RmStop ==
    /\ rm_running
    /\ rm_running' = FALSE
    /\ UNCHANGED <<now, switcherVars, minerVars, alertVars, recoveryVars, faultVars,
                   stopVars, dispatchVars, rm_pc,
                   rm_policy, rm_metrics, rm_call, scaling_policies, sp_last_action,
                   sp_action_count, scale_actions, cpu_threads, intensity, lockVars,
                   opsVars, logVars, threadVars>>

\* _monitoring_loop: "while self.running", _collect_metrics and the part of
\* _process_metrics before the policies (history and alert bookkeeping that no
\* policy reads).
RmPassBegin ==
    /\ LoopGoesOn(rm_running)
    /\ rm_pc = "ready"
    /\ \E m \in RmSnapshots :
         /\ rm_metrics' = m
         /\ metrics_history' = MetricsAppend(metrics_history, m)
    /\ rm_pc' = "policies"
    /\ rm_policy' = 1
    /\ rm_call' = NoRmCall
    /\ UNCHANGED <<now, switcherVars, minerVars, alertVars, recoveryVars, faultVars,
                   stopVars, dispatchVars, rm_running,
                   scaling_policies, sp_last_action, sp_action_count, scale_actions,
                   cpu_threads, intensity, lockVars, opsVars, threadVars>>

\* Where the loop goes when the exception of a policy reaches the handler of
\* _monitoring_loop: the rest of the pass is skipped.
AfterPolicyOuterHandler(k) == [pc |-> "ready", policy |-> 1]

\* Where "for policy in self.scaling_policies" goes after policy k, whether
\* execute_scale returned or its exception was caught in the loop body: the next
\* policy, or time.sleep(monitoring_interval) and the next "while self.running".
AfterPolicy(k) ==
    IF k = Len(scaling_policies) THEN [pc |-> "ready", policy |-> 1]
    ELSE [pc |-> "policies", policy |-> k + 1]

\* One turn of "for policy in self.scaling_policies" in
\* _execute_scaling_policies; raised = execute_scale raised before it changed
\* anything, and the loop body caught it.
PolicyStep(raised) ==
    /\ rm_pc = "policies"
    /\ LET k == rm_policy
           r == ExecuteScale(k, rm_metrics)
       IN /\ IF raised
             THEN UNCHANGED <<sp_last_action, sp_action_count, scale_actions,
                              cpu_threads, intensity>>
             ELSE /\ sp_last_action' = [sp_last_action EXCEPT ![k] = r.last_action]
                  /\ sp_action_count' = [sp_action_count EXCEPT ![k] = r.action_count]
                  /\ scale_actions' = IF r.ret THEN scale_actions + 1 ELSE scale_actions
                  /\ cpu_threads' = r.threads
                  /\ intensity' = r.intensity
          /\ rm_pc' = AfterPolicy(k).pc
          /\ rm_policy' = AfterPolicy(k).policy
    /\ rm_call' = [policy |-> rm_policy,
                   result |-> IF raised THEN "raised"
                              ELSE IF ExecuteScale(rm_policy, rm_metrics).ret THEN "true"
                              ELSE "false"]
    /\ UNCHANGED <<now, switcherVars, minerVars, alertVars, recoveryVars, faultVars,
                   stopVars, dispatchVars, rm_running,
                   rm_metrics, scaling_policies, lockVars, opsVars, logVars, threadVars>>

\* A policy of the pass is executed.
RmPolicyStep == PolicyStep(FALSE)

\* A policy of the pass raises out of execute_scale.
RmPolicyStepFault == PolicyStep(TRUE)

\* "while self.running" is false: _monitoring_loop returns and the thread ends.
RmLoopExit ==
    /\ ~LoopGoesOn(rm_running)
    /\ rm_pc = "ready"
    /\ rm_pc' = "idle"
    /\ UNCHANGED <<now, switcherVars, minerVars, alertVars, recoveryVars, faultVars,
                   stopVars, dispatchVars, rm_running,
                   rm_policy, rm_metrics, rm_call, scaling_policies, sp_last_action,
                   sp_action_count, scale_actions, cpu_threads, intensity, lockVars,
                   opsVars, logVars, threadVars>>

\* The resource monitor's loop (its one second sleep is shorter than a clock unit)
\* and its owner's start and stop.
NextScaler ==
    \/ Tick
    \/ RmStart
    \/ RmStop
    \/ RmPassBegin
    \/ RmPolicyStep
    \/ RmLoopExit

\* The resource monitor alone, for each mining configuration it may be given.
InitScaler ==
    /\ \E threads \in 1..MaxThreads, intens \in IntensityInits :
          InitWith(RegistryMain, threads, intens)
    /\ switch_strategy = "threshold"

SpecScaler == InitScaler /\ [][NextScaler]_vars

\* Policies the monitor may hold where its restarts are followed: two starts.
MaxRestartPolicies == 6

\* start_monitoring, for the second time too.
RmRestart == RmStartUpTo(MaxRestartPolicies)

\* The resource monitor started, stopped and started again by its owner.
NextRestart ==
    \/ Tick
    \/ RmRestart
    \/ RmStop
    \/ RmPassBegin
    \/ RmPolicyStep
    \/ RmLoopExit

InitRestart ==
    /\ InitWith(RegistryMain, MaxThreads, ReduceIntensityAbove)
    /\ switch_strategy = "threshold"

SpecRestart == InitRestart /\ [][NextRestart]_vars

\* config.intensity values above the floor: one the intensity policy takes to
\* the floor and one the recovery reduces.
FloorIntensityInits == {320, 520}

\* The scaling policies and the recovery actions work on one mining
\* configuration: the monitor's loop and the handle_error calls interleave.
NextResources ==
    \/ RecTick
    \/ RmStart
    \/ RmPassBegin
    \/ RmPolicyStep
    \/ HandleMiningError

InitResources ==
    /\ \E intens \in FloorIntensityInits :
          InitWith(RegistryMain, MaxThreads, intens)
    /\ switch_strategy = "threshold"

SpecResources == InitResources /\ [][NextResources]_vars

\* The four bounded logs and the calls that append to them: the monitor's passes,
\* record_switch, create_manual_alert and handle_error.
NextLogs ==
    \/ RmStart
    \/ RmPassBegin
    \/ RmPolicyStep
    \/ RecordSwitchCall
    \/ CreateManualAlert
    \/ HandleUnrecoveredError

\* A mining configuration at its floors, which the policies leave alone.
InitLogs ==
    /\ InitWith(RegistryMain, 1, IntensityFloor)
    /\ switch_strategy = "threshold"

SpecLogs == InitLogs /\ [][NextLogs]_vars

\* "self.monitoring_thread is None or not self.monitoring_thread.is_alive()"
MonitorThreadDead(pos) == pos = "none"

\* The manager's flag and thread after start_monitoring.
MonitorStarted(m) ==
    IF MonitorThreadDead(m.pos)
    THEN [m EXCEPT !.running = TRUE, !.pos = "top", !.last_call = "start"]
    ELSE [m EXCEPT !.last_call = "start"]

\* The manager's monitoring thread and its owner change rec_mon alone.
MonitorBecomes(m) ==
    /\ rec_mon' = m
    /\ UNCHANGED <<now, switcherVars, minerVars, alertVars, recoveryVars, scalerVars,
                   faultVars, dispatchVars, stopVars, lockVars, opsVars, logVars, rc_pc,
                   loop_pos, he_stack>>

\* ErrorRecoveryManager.start_monitoring, called when the owner's last call was
\* not a start.
RecMonStart ==
    /\ rec_mon.last_call # "start"
    /\ MonitorBecomes(MonitorStarted(rec_mon))

\* ErrorRecoveryManager.stop_monitoring: the flag is cleared and
\* join(timeout=5) returns, the thread having ended or not.
RecMonStop ==
    /\ rec_mon.last_call = "start"
    /\ MonitorBecomes([rec_mon EXCEPT !.running = FALSE, !.last_call = "stop"])

\* "while self.running:" of _monitoring_loop
RecMonTest ==
    /\ rec_mon.pos = "top"
    /\ MonitorBecomes([rec_mon EXCEPT !.pos = IF LoopGoesOn(rec_mon.running)
                                              THEN "check" ELSE "none"])

\* _check_system_health of the loop reports an overload it reads:
\* handle_error("system", ..., HIGH).
RecMonReport ==
    /\ rec_mon.pos = "check"
    /\ HandleErrorFrom({<<"system", "high">>})

\* _check_system_health returns and the loop enters time.sleep(check_interval).
RecMonSleep ==
    /\ rec_mon.pos = "check"
    /\ MonitorBecomes([rec_mon EXCEPT !.pos = "sleep"])

\* time.sleep(check_interval) returns.
RecMonWake ==
    /\ rec_mon.pos = "sleep"
    /\ MonitorBecomes([rec_mon EXCEPT !.pos = "top"])

\* The manager's monitoring thread and the owner who starts and stops it.
NextRecMon ==
    \/ RecTick
    \/ RecMonStart
    \/ RecMonStop
    \/ RecMonTest
    \/ RecMonReport
    \/ RecMonSleep
    \/ RecMonWake

SpecRecMon == InitAlert /\ [][NextRecMon]_vars

\* ------------------------------------------------- exceptions in the loops

\* _handle_alert up to an exception raised before _send_notifications: the alert
\* is in the active set and the history, and no channel was asked.
HandleAlertRaising(alert) ==
    LET oid == Len(alert_objs) + 1
    IN /\ alert_objs' = Append(alert_objs, alert)
       /\ active_alerts' = ActivePut(active_alerts, alert.id, oid)
       /\ alert_history' = HistoryAppend(alert_history, oid)

\* Where the alerting loop goes when the exception of a rule reaches the outer
\* handler of _monitoring_loop: the rest of the pass and the reconciliation are
\* skipped, and the loop sleeps.
AfterRuleOuterHandler(r) == [pc |-> "sleep", rule |-> 1]

\* Where "for rule in self.alert_rules" goes after rule r, whether the body ended
\* or its exception was caught by the handler inside the loop body.
AfterRule(r) ==
    IF r = Len(AlertRules) THEN [pc |-> "reconcile", rule |-> 1]
    ELSE [pc |-> "rules", rule |-> r + 1]

\* One turn of "for rule in self.alert_rules" in which the body raises: in
\* should_trigger, before anything changed, or in _handle_alert, after the rule
\* was triggered and the alert registered.
AlertRuleStepFault ==
    /\ al_pc = "rules"
    /\ al_faults < MaxFaults
    /\ al_faults' = al_faults + 1
    /\ LET r == al_rule
       IN /\ \/ UNCHANGED <<last_triggered, trigger_count, alert_objs, active_alerts,
                            alert_history>>
             \/ /\ ShouldTrigger(r, al_metrics)
                /\ Len(alert_objs) < MaxAlerts
                /\ last_triggered' = [last_triggered EXCEPT ![r] = now]
                /\ trigger_count' = [trigger_count EXCEPT ![r] = @ + 1]
                /\ HandleAlertRaising(NewAlert(AlertRules[r].name, r))
          /\ al_pc' = AfterRule(r).pc
          /\ al_rule' = AfterRule(r).rule
    /\ UNCHANGED <<now, switcherVars, minerVars, al_running, al_metrics,
                   suppressed_until, recoveryVars, scalerVars, dispatchVars,
                   stopVars, lockVars, opsVars, logVars, threadVars>>

\* The two loops are examined one at a time: the alerting loop is started only
\* where the resource monitor never was, and the other way round.
FaultsAlertStart == scaling_policies = <<>> /\ AlertStart
FaultsRmStart == ~al_running /\ al_metrics = NoMetrics /\ RmStart

\* The alerting loop and the resource monitor's loop with rules and policies
\* that may raise.
NextFaults ==
    \/ Tick
    \/ FaultsAlertStart
    \/ AlertPassBegin
    \/ AlertRuleStep
    \/ AlertRuleStepFault
    \/ AlertReconcile
    \/ FaultsRmStart
    \/ RmPassBegin
    \/ RmPolicyStep
    \/ RmPolicyStepFault

SpecFaults == InitAlert /\ [][NextFaults]_vars

\* ------------------------------------------------ notification dispatch

\* _send_notifications that lets the exception of a channel end the dispatch.
RECURSIVE NotifyFromStopAtRaise(_, _)
NotifyFromStopAtRaise(c, oc) ==
    IF c > Len(AlertChannels) THEN [attempts |-> <<>>, escaped |-> FALSE]
    ELSE IF ~AlertChannels[c].enabled THEN NotifyFromStopAtRaise(c + 1, oc)
    ELSE IF oc[c] = "raised"
         THEN [attempts |-> <<[channel |-> c, result |-> oc[c]]>>, escaped |-> TRUE]
         ELSE LET rest == NotifyFromStopAtRaise(c + 1, oc)
              IN [attempts |-> <<[channel |-> c, result |-> oc[c]]>> \o rest.attempts,
                  escaped |-> rest.escaped]

\* "for channel in self.alert_channels: try: channel.send_alert(alert) except ..."
\* from channel c on: send_alert returns False for a disabled channel without
\* sending, attempts _send_alert on an enabled one and turns its exception into
\* False; whatever still comes out of send_alert is caught by the loop body.
RECURSIVE NotifyFrom(_, _)
NotifyFrom(c, oc) ==
    IF c > Len(AlertChannels) THEN [attempts |-> <<>>, escaped |-> FALSE]
    ELSE IF ~AlertChannels[c].enabled THEN NotifyFrom(c + 1, oc)
    ELSE LET rest == NotifyFrom(c + 1, oc)
         IN [attempts |-> <<[channel |-> c, result |-> oc[c]]>> \o rest.attempts,
             escaped |-> rest.escaped]

\* The number of _send_alert attempts a dispatch made on channel c.
AttemptsOn(d, c) == Cardinality({i \in DOMAIN d.attempts : d.attempts[i].channel = c})

\* The alert with the attempts of one dispatch counted.
Notified(alert, d) ==
    [alert EXCEPT !.sent =
        [c \in Channels |->
            IF alert.status = "resolved"
            THEN [alert.sent[c] EXCEPT !.resolved = @ + AttemptsOn(d, c)]
            ELSE [alert.sent[c] EXCEPT !.active = @ + AttemptsOn(d, c)]]]

\* _handle_alert(alert) with channels that behave as channel_state says.
HandleAlertVia(alert) ==
    LET oid == Len(alert_objs) + 1
        d == NotifyFrom(1, channel_state)
    IN /\ alert_objs' = Append(alert_objs, Notified(alert, d))
       /\ active_alerts' = ActivePut(active_alerts, alert.id, oid)
       /\ alert_history' = HistoryAppend(alert_history, oid)
       /\ dispatch' = [status |-> "active", alerts |-> {oid},
                       attempts |-> d.attempts, escaped |-> d.escaped]

\* The environment: the endpoint of an enabled channel starts or stops failing
\* (send_alert never reaches the endpoint of a disabled one).
ChannelChange ==
    /\ \E c \in Channels, o \in ChannelOutcomes :
          /\ AlertChannels[c].enabled
          /\ channel_state[c] # o
          /\ channel_state' = [channel_state EXCEPT ![c] = o]
    /\ UNCHANGED <<now, switcherVars, minerVars, alertVars, recoveryVars, scalerVars,
                   faultVars, stopVars, dispatch, lockVars, opsVars, logVars, threadVars>>

\* AlertRuleStep with channels that may fail.
NotifyRuleStep ==
    /\ al_pc = "rules"
    /\ LET r == al_rule
       IN IF ShouldTrigger(r, al_metrics)
          THEN /\ Len(alert_objs) < MaxAlerts
               /\ last_triggered' = [last_triggered EXCEPT ![r] = now]
               /\ trigger_count' = [trigger_count EXCEPT ![r] = @ + 1]
               /\ HandleAlertVia(NewAlert(AlertRules[r].name, r))
          ELSE /\ UNCHANGED <<last_triggered, trigger_count, alert_objs, active_alerts,
                              alert_history>>
               /\ dispatch' = NoDispatch
    /\ al_pc' = AfterRule(al_rule).pc
    /\ al_rule' = AfterRule(al_rule).rule
    /\ UNCHANGED <<now, switcherVars, minerVars, al_running, al_metrics,
                   suppressed_until, recoveryVars, scalerVars, faultVars, stopVars, channel_state,
                   lockVars, opsVars, logVars, threadVars>>

\* AlertReconcile with channels that may fail: one dispatch per resolved alert.
NotifyReconcile ==
    /\ al_pc = "reconcile"
    /\ LET gone == ResolvedIds(al_metrics)
           oids == {active_alerts[id] : id \in gone}
           d == NotifyFrom(1, channel_state)
       IN /\ alert_objs' =
               [o \in DOMAIN alert_objs |->
                   IF o \in oids
                   THEN Notified(
                          [alert_objs[o] EXCEPT
                              !.status = "resolved",
                              !.resolved_timestamp = now,
                              !.resolved_cond =
                                  IF alert_objs[o].rule = 0 THEN "none"
                                  ELSE IF EvaluateCondition(alert_objs[o].rule, al_metrics)
                                       THEN "true" ELSE "false"], d)
                   ELSE alert_objs[o]]
          /\ active_alerts' = [id \in DOMAIN active_alerts \ gone |-> active_alerts[id]]
          /\ dispatch' = IF oids = {} THEN NoDispatch
                         ELSE [status |-> "resolved", alerts |-> oids,
                               attempts |-> d.attempts, escaped |-> d.escaped]
    /\ al_pc' = "sleep"
    /\ UNCHANGED <<now, switcherVars, minerVars, al_running, al_rule, al_metrics,
                   last_triggered, trigger_count, suppressed_until, alert_history,
                   recoveryVars, scalerVars, faultVars, stopVars, channel_state,
                   lockVars, opsVars, logVars, threadVars>>

\* The alerting loop with channels whose endpoints fail and recover.
NextDispatch ==
    \/ Tick
    \/ AlertStart
    \/ AlertPassBegin
    \/ NotifyRuleStep
    \/ NotifyReconcile
    \/ ChannelChange

SpecDispatch == InitAlert /\ [][NextDispatch]_vars

\* -------------------------------------------------- stopping the engines

\* The engine's running flag.
Running(e) ==
    IF e = "alerting" THEN al_running
    ELSE IF e = "scaler" THEN rm_running
    ELSE sw_running

\* The engine's loop thread has been started and has not returned.
Alive(e) == IF e = "scaler" THEN rm_pc # "idle" ELSE e \in alive

\* The engine's loop thread stands at its "while self.running".
AtLoopTop(e) ==
    IF e = "alerting" THEN al_pc = "ready"
    ELSE IF e = "scaler" THEN rm_pc = "ready"
    ELSE upd_idx = 1 /\ ~upd_sleeping

\* The engine was never started: the engines are examined one at a time.
NeverRan(e) ==
    /\ ~Running(e)
    /\ ~Alive(e)
    /\ e \notin joining
    /\ IF e = "alerting" THEN al_metrics = NoMetrics
       ELSE IF e = "scaler" THEN scaling_policies = <<>>
       ELSE DOMAIN profitability_data = {}
OthersNeverRan(e) == \A f \in Engines \ {e} : NeverRan(f)

\* AlertingSystem.start_monitoring, with the thread it creates.  A start while
\* the thread of an earlier start still lives would create a second loop thread.
StopAlertStart ==
    /\ OthersNeverRan("alerting")
    /\ ~al_running
    /\ ~Alive("alerting")
    /\ al_running' = TRUE
    /\ alive' = alive \cup {"alerting"}
    /\ UNCHANGED <<now, switcherVars, minerVars, al_pc, al_rule, al_metrics,
                   last_triggered, trigger_count, suppressed_until, alert_objs,
                   active_alerts, alert_history, recoveryVars, scalerVars, faultVars,
                   dispatchVars, joining, lockVars, opsVars, logVars, threadVars>>

\* ResourceMonitor.start_monitoring
StopRmStart == OthersNeverRan("scaler") /\ RmStart

\* ProfitSwitcher.start, with the thread it creates.
StopSwitcherStart ==
    /\ OthersNeverRan("switcher")
    /\ ~sw_running
    /\ ~Alive("switcher")
    /\ sw_running' = TRUE
    /\ upd_idx' = 1
    /\ upd_sleeping' = FALSE
    /\ alive' = alive \cup {"switcher"}
    /\ UNCHANGED <<now, switch_strategy, current_algorithm, profitability_data,
                   switch_history, last_switch_time, gba, minerVars, alertVars,
                   recoveryVars, scalerVars, faultVars, dispatchVars, joining,
                   lockVars, opsVars, logVars, threadVars>>

\* stop / stop_monitoring up to the join: "self.running = False", then
\* thread.join(timeout=5) is entered.
StopBegin(e) ==
    /\ Running(e)
    /\ e \notin joining
    /\ al_running' = IF e = "alerting" THEN FALSE ELSE al_running
    /\ rm_running' = IF e = "scaler" THEN FALSE ELSE rm_running
    /\ sw_running' = IF e = "switcher" THEN FALSE ELSE sw_running
    /\ joining' = joining \cup {e}
    /\ UNCHANGED <<now, switch_strategy, current_algorithm, profitability_data,
                   switch_history, last_switch_time, upd_idx, upd_sleeping, gba,
                   minerVars, al_pc, al_rule, al_metrics, last_triggered,
                   trigger_count, suppressed_until, alert_objs, active_alerts,
                   alert_history, recoveryVars, rm_pc, rm_policy, rm_metrics, rm_call,
                   scaling_policies, sp_last_action, sp_action_count, scale_actions,
                   cpu_threads, intensity, faultVars, dispatchVars, alive, lockVars,
                   opsVars, logVars, threadVars>>

\* What thread.join(timeout=5) does to the thread it waits for: nothing.
JoinEffect(e) == UNCHANGED <<al_pc, rm_pc, upd_idx, alive>>

\* thread.join(timeout=5) returns, the thread having ended or the timeout having
\* expired, and stop returns.
StopReturn(e) ==
    /\ e \in joining
    /\ joining' = joining \ {e}
    /\ JoinEffect(e)
    /\ UNCHANGED <<now, switch_strategy, sw_running, current_algorithm,
                   profitability_data, switch_history, last_switch_time, upd_sleeping,
                   gba, minerVars, al_running, al_rule, al_metrics, last_triggered,
                   trigger_count, suppressed_until, alert_objs, active_alerts,
                   alert_history, recoveryVars, rm_running, rm_policy, rm_metrics,
                   rm_call, scaling_policies, sp_last_action, sp_action_count,
                   scale_actions, cpu_threads, intensity, faultVars, dispatchVars,
                   lockVars, opsVars, logVars, threadVars>>

\* The alerting loop begins a pass; the model begins none that could need more
\* Alert objects than it keeps.
StopAlertPassBegin ==
    /\ LoopGoesOn(al_running)
    /\ Len(alert_objs) + Len(AlertRules) <= MaxAlerts
    /\ AlertPassBegin

\* "while self.running" is false: AlertingSystem._monitoring_loop returns.
AlertLoopExit ==
    /\ Alive("alerting")
    /\ AtLoopTop("alerting")
    /\ ~LoopGoesOn(al_running)
    /\ alive' = alive \ {"alerting"}
    /\ UNCHANGED <<now, switcherVars, minerVars, alertVars, recoveryVars, scalerVars,
                   faultVars, dispatchVars, joining, lockVars, opsVars, logVars, threadVars>>

\* "while self.running" is false: ProfitSwitcher._update_loop returns.
SwitcherLoopExit ==
    /\ Alive("switcher")
    /\ AtLoopTop("switcher")
    /\ ~LoopGoesOn(sw_running)
    /\ alive' = alive \ {"switcher"}
    /\ UNCHANGED <<now, switcherVars, minerVars, alertVars, recoveryVars, scalerVars,
                   faultVars, dispatchVars, joining, lockVars, opsVars, logVars, threadVars>>

\* The clock has reached the end of the modelled time: the sleeps of the loops
\* still end.
Wake ==
    /\ now = Epoch + MaxTicks
    /\ upd_sleeping \/ al_pc = "sleep"
    /\ upd_sleeping' = FALSE
    /\ al_pc' = IF al_pc = "sleep" THEN "ready" ELSE al_pc
    /\ UNCHANGED <<now, switch_strategy, sw_running, current_algorithm,
                   profitability_data, switch_history, last_switch_time, upd_idx, gba,
                   minerVars, al_running, al_rule, al_metrics, last_triggered,
                   trigger_count, suppressed_until, alert_objs, active_alerts,
                   alert_history, extVars>>

\* start / start_monitoring as the code has it: "if self.running: return", the
\* flag is set and a new thread is created, whether or not the thread of an
\* earlier start has ended; the resource monitor first appends its policies.
LoopStart(e) ==
    /\ ~Running(e)
    /\ e = "scaler" => Len(scaling_policies) + Len(DefaultPolicies) <= MaxPolicies
    /\ \E i \in LoopThreads :
         /\ loop_pos[e][i] = "none"
         /\ \A j \in LoopThreads : j < i => loop_pos[e][j] # "none"
         /\ loop_pos' = [loop_pos EXCEPT ![e][i] = "top"]
    /\ al_running' = IF e = "alerting" THEN TRUE ELSE al_running
    /\ rm_running' = IF e = "scaler" THEN TRUE ELSE rm_running
    /\ sw_running' = IF e = "switcher" THEN TRUE ELSE sw_running
    /\ IF e = "scaler"
       THEN /\ scaling_policies' = scaling_policies \o DefaultPolicies
            /\ sp_last_action' = sp_last_action \o [i \in 1..Len(DefaultPolicies) |-> 0]
            /\ sp_action_count' = sp_action_count \o [i \in 1..Len(DefaultPolicies) |-> 0]
       ELSE UNCHANGED <<scaling_policies, sp_last_action, sp_action_count>>
    /\ UNCHANGED <<now, switch_strategy, current_algorithm, profitability_data,
                   switch_history, last_switch_time, upd_idx, upd_sleeping, gba,
                   minerVars, al_pc, al_rule, al_metrics, last_triggered,
                   trigger_count, suppressed_until, alert_objs, active_alerts,
                   alert_history, recoveryVars, rm_pc, rm_policy, rm_metrics, rm_call,
                   scale_actions, cpu_threads, intensity, faultVars, dispatchVars,
                   stopVars, lockVars, opsVars, logVars, rc_pc,
                   rec_mon, he_stack>>

\* stop / stop_monitoring: the flag is cleared; join(timeout=5) returns when the
\* thread has ended or after five seconds, and ends no thread.
LoopStop(e) ==
    /\ Running(e)
    /\ al_running' = IF e = "alerting" THEN FALSE ELSE al_running
    /\ rm_running' = IF e = "scaler" THEN FALSE ELSE rm_running
    /\ sw_running' = IF e = "switcher" THEN FALSE ELSE sw_running
    /\ UNCHANGED <<now, switch_strategy, current_algorithm, profitability_data,
                   switch_history, last_switch_time, upd_idx, upd_sleeping, gba,
                   minerVars, al_pc, al_rule, al_metrics, last_triggered,
                   trigger_count, suppressed_until, alert_objs, active_alerts,
                   alert_history, recoveryVars, rm_pc, rm_policy, rm_metrics, rm_call,
                   scaling_policies, sp_last_action, sp_action_count,
                   scale_actions, cpu_threads, intensity, faultVars, dispatchVars,
                   stopVars, lockVars, opsVars, logVars, threadVars>>

\* A loop thread moves; nothing but its position changes here.
LoopMove(e, i, to) ==
    /\ loop_pos' = [loop_pos EXCEPT ![e][i] = to]
    /\ UNCHANGED <<now, switcherVars, minerVars, alertVars, recoveryVars, scalerVars,
                   faultVars, dispatchVars, stopVars, lockVars, opsVars, logVars, rc_pc,
                   rec_mon, he_stack>>

\* "while self.running:" of a loop thread: it enters an iteration, or the loop
\* function returns and the thread ends.
LoopTest(e, i) ==
    /\ loop_pos[e][i] = "top"
    /\ LoopMove(e, i, IF LoopGoesOn(Running(e)) THEN "body" ELSE "none")

\* The iteration's work is done and the thread enters time.sleep.
LoopBodyEnd(e, i) == loop_pos[e][i] = "body" /\ LoopMove(e, i, "sleep")

\* time.sleep returns.
LoopWake(e, i) == loop_pos[e][i] = "sleep" /\ LoopMove(e, i, "top")

LoopStarts == \E e \in Engines : LoopStart(e)
LoopStops == \E e \in Engines : LoopStop(e)
LoopTests == \E e \in Engines, i \in LoopThreads : LoopTest(e, i)
LoopBodyEnds == \E e \in Engines, i \in LoopThreads : LoopBodyEnd(e, i)
LoopWakes == \E e \in Engines, i \in LoopThreads : LoopWake(e, i)

\* The owner's start and stop calls and the loop threads they leave behind.
NextLoops ==
    \/ LoopStarts
    \/ LoopStops
    \/ LoopTests
    \/ LoopBodyEnds
    \/ LoopWakes

SpecLoops == InitAlert /\ [][NextLoops]_vars

StopStarts == StopAlertStart \/ StopRmStart \/ StopSwitcherStart
StopBegins == \E e \in Engines : StopBegin(e)
StopReturns == \E e \in Engines : StopReturn(e)

\* Each engine's loop thread with the owner that starts and stops it.
NextStop ==
    \/ Tick
    \/ Wake
    \/ StopStarts
    \/ StopBegins
    \/ StopReturns
    \/ StopAlertPassBegin
    \/ AlertRuleStep
    \/ AlertReconcile
    \/ AlertLoopExit
    \/ RmPassBegin
    \/ RmPolicyStep
    \/ RmLoopExit
    \/ UpdateProfitability
    \/ SwitcherLoopExit

\* The threads are scheduled, sleeps and joins end.
StopFairness ==
    /\ WF_vars(Tick)
    /\ WF_vars(Wake)
    /\ \A e \in Engines : WF_vars(StopReturn(e))
    /\ WF_vars(AlertRuleStep)
    /\ WF_vars(AlertReconcile)
    /\ WF_vars(AlertLoopExit)
    /\ WF_vars(RmPolicyStep)
    /\ WF_vars(RmLoopExit)
    /\ WF_vars(UpdateProfitability)
    /\ WF_vars(SwitcherLoopExit)

SpecStop == InitAlert /\ [][NextStop]_vars /\ StopFairness

\* ---------------------------------------------------- the switcher's lock

\* The profits the update loop finds while the lock is examined.
LockProfits == {100, 115}

\* An acquire that does not wait for the holder.
LockFreeAlways == TRUE

\* threading.Lock: "with self._lock" enters only when no thread holds the lock.
LockFree == lock_owner = "none"

\* The first statement of each thread's "with self._lock" block.
FirstStep(t) ==
    IF t = "writer" THEN "append"
    ELSE IF t = "updater" THEN "write"
    ELSE "read"

\* A thread enters "with self._lock"; the caller of record_switch passes the
\* algorithm the switcher holds and another one.
Acquire(t) ==
    /\ lk_pc[t] = "idle"
    /\ LockFree
    /\ t = "updater" => (sw_running \/ upd_idx > 1)
    /\ lock_owner' = t
    /\ lk_pc' = [lk_pc EXCEPT ![t] = FirstStep(t)]
    /\ IF t = "writer"
       THEN \E to_algorithm \in Algos \ {current_algorithm} :
               lk_arg' = [from |-> current_algorithm, to |-> to_algorithm]
       ELSE UNCHANGED lk_arg
    /\ UNCHANGED <<now, switcherVars, minerVars, alertVars, recoveryVars, scalerVars,
                   faultVars, dispatchVars, stopVars, seen, opsVars, logVars, threadVars>>

\* The thread leaves its "with self._lock" block.
Release(t) ==
    /\ lk_pc[t] = "release"
    /\ lock_owner' = "none"
    /\ lk_pc' = [lk_pc EXCEPT ![t] = "idle"]
    /\ lk_arg' = IF t = "writer" THEN "none" ELSE lk_arg
    /\ UNCHANGED <<now, switcherVars, minerVars, alertVars, recoveryVars, scalerVars,
                   faultVars, dispatchVars, stopVars, seen, opsVars, logVars, threadVars>>

\* record_switch: self.switch_history.append((time.time(), from, to))
WriterAppend ==
    /\ lk_pc["writer"] = "append"
    /\ switch_history' = Append(switch_history,
                                [ts |-> now, from |-> lk_arg.from, to |-> lk_arg.to])
    /\ lk_pc' = [lk_pc EXCEPT !["writer"] = "current"]
    /\ UNCHANGED <<now, switch_strategy, sw_running, current_algorithm,
                   profitability_data, last_switch_time, upd_idx, upd_sleeping, gba,
                   minerVars, alertVars, recoveryVars, scalerVars, faultVars,
                   dispatchVars, stopVars, lock_owner, lk_arg, seen, opsVars, logVars, threadVars>>

\* record_switch: self.current_algorithm = to_algorithm
WriterCurrent ==
    /\ lk_pc["writer"] = "current"
    /\ current_algorithm' = lk_arg.to
    /\ lk_pc' = [lk_pc EXCEPT !["writer"] = "stamp"]
    /\ UNCHANGED <<now, switch_strategy, sw_running, switch_history,
                   profitability_data, last_switch_time, upd_idx, upd_sleeping, gba,
                   minerVars, alertVars, recoveryVars, scalerVars, faultVars,
                   dispatchVars, stopVars, lock_owner, lk_arg, seen, opsVars, logVars, threadVars>>

\* record_switch: self.last_switch_time = time.time(), then the last 100
\* switches are kept.
WriterStamp ==
    /\ lk_pc["writer"] = "stamp"
    /\ last_switch_time' = now
    /\ switch_history' =
          IF Len(switch_history) > SwitchHistoryCap
          THEN SubSeq(switch_history, Len(switch_history) - SwitchHistoryCap + 1,
                      Len(switch_history))
          ELSE switch_history
    /\ lk_pc' = [lk_pc EXCEPT !["writer"] = "release"]
    /\ UNCHANGED <<now, switch_strategy, sw_running, current_algorithm,
                   profitability_data, upd_idx, upd_sleeping, gba, minerVars,
                   alertVars, recoveryVars, scalerVars, faultVars, dispatchVars,
                   stopVars, lock_owner, lk_arg, seen, opsVars, logVars, threadVars>>

\* The switcher's fields as record_switch leaves them: the algorithm held is the
\* one the last recorded switch went to, stamped no earlier than that switch.
WholeSwitch ==
    IF switch_history = <<>>
    THEN current_algorithm = "none" /\ last_switch_time = NoTime
    ELSE /\ current_algorithm = switch_history[Len(switch_history)].to
         /\ last_switch_time >= switch_history[Len(switch_history)].ts
         /\ Len(switch_history) <= SwitchHistoryCap

\* get_best_algorithm: the body of its "with self._lock" block reads
\* profitability_data, current_algorithm, last_switch_time and switch_history.
ReaderRead ==
    /\ lk_pc["reader"] = "read"
    /\ gba' = GetBestResult
    /\ seen' = IF WholeSwitch THEN "whole" ELSE "partial"
    /\ lk_pc' = [lk_pc EXCEPT !["reader"] = "release"]
    /\ UNCHANGED <<now, switch_strategy, sw_running, current_algorithm,
                   profitability_data, switch_history, last_switch_time, upd_idx,
                   upd_sleeping, minerVars, alertVars, recoveryVars, scalerVars,
                   faultVars, dispatchVars, stopVars, lock_owner, lk_arg, opsVars, logVars, threadVars>>

\* get_profitability_summary / get_switch_history: the fields are copied out.
AccessorRead ==
    /\ lk_pc["accessor"] = "read"
    /\ lk_pc' = [lk_pc EXCEPT !["accessor"] = "release"]
    /\ UNCHANGED <<now, switcherVars, minerVars, alertVars, recoveryVars, scalerVars,
                   faultVars, dispatchVars, stopVars, lock_owner, lk_arg, seen,
                   opsVars, logVars, threadVars>>

\* _update_profitability_data: self.profitability_data[algorithm_name] = profit_data
UpdaterWrite ==
    /\ lk_pc["updater"] = "write"
    /\ \E p \in LockProfits :
         LET a == AlgoOrder[upd_idx]
         IN profitability_data' =
              [x \in DOMAIN profitability_data \cup {a} |->
                  IF x = a THEN p ELSE profitability_data[x]]
    /\ upd_idx' = IF upd_idx = Len(AlgoOrder) THEN 1 ELSE upd_idx + 1
    /\ lk_pc' = [lk_pc EXCEPT !["updater"] = "release"]
    /\ UNCHANGED <<now, switch_strategy, sw_running, current_algorithm, switch_history,
                   last_switch_time, upd_sleeping, gba, minerVars, alertVars,
                   recoveryVars, scalerVars, faultVars, dispatchVars, stopVars,
                   lock_owner, lk_arg, seen, opsVars, logVars, threadVars>>

LockAcquires == \E t \in LockThreads : Acquire(t)
LockReleases == \E t \in LockThreads : Release(t)

\* The threads that use the switcher, statement by statement.
NextLock ==
    \/ Tick
    \/ SwitcherStart
    \/ LockAcquires
    \/ LockReleases
    \/ WriterAppend
    \/ WriterCurrent
    \/ WriterStamp
    \/ ReaderRead
    \/ AccessorRead
    \/ UpdaterWrite

SpecLock == InitAlert /\ [][NextLock]_vars

\* ------------------------------------------------------------------ claims

IntervalElapsed == now - last_switch_time >= MinSwitchInterval
HasData(a) == a \in DOMAIN profitability_data

\* C2: every two entries of switch_history have timestamps at least
\* min_switch_interval apart.
C2_HistoryEntriesApart ==
    \A i, j \in 1..Len(switch_history) :
        i < j => switch_history[j].ts - switch_history[i].ts >= MinSwitchInterval

\* C3: in the composed system two successive changes of the mined algorithm
\* identifier are at least min_switch_interval apart.
C3_MinedChangesApart ==
    (prev_change # NoTime /\ last_change # NoTime)
        => last_change - prev_change >= MinSwitchInterval

\* C4: when get_best_algorithm decides to switch, (now, from, to) is appended to
\* the switch history, current_algorithm becomes the returned algorithm and
\* last_switch_time becomes now.
C4_SwitchIsRecorded ==
    (gba.called /\ gba.decision = "true")
        => /\ current_algorithm = gba.ret
           /\ last_switch_time = now
           /\ switch_history # <<>>
           /\ switch_history[Len(switch_history)].ts = now
           /\ switch_history[Len(switch_history)].to = gba.ret

\* C5: for every strategy, with a current algorithm set that differs from the
\* candidate, _should_switch returns false while now - last_switch_time <
\* min_switch_interval, whatever the profitability values are; so does the
\* get_best_algorithm call that asked it.
C5_MinIntervalGate ==
    /\ \A s \in Strategies, c \in Algos :
          (/\ current_algorithm # "none"
           /\ current_algorithm # c
           /\ now - last_switch_time < MinSwitchInterval)
             => ShouldSwitchWith(s, c) = "false"
    /\ (/\ gba.called
        /\ gba.best \in Algos
        /\ current_algorithm # "none"
        /\ current_algorithm # gba.best
        /\ now - last_switch_time < MinSwitchInterval)
          => (gba.decision = "false" /\ gba.ret = current_algorithm)

\* C5 witness: a call inside the interval refused a strictly more profitable
\* candidate.
C5_Witness ==
    /\ gba.called
    /\ gba.best \in Algos
    /\ current_algorithm # "none"
    /\ current_algorithm # gba.best
    /\ HasData(current_algorithm)
    /\ profitability_data[gba.best] > profitability_data[current_algorithm]
    /\ profitability_data[current_algorithm] > 0
    /\ now - last_switch_time < MinSwitchInterval
    /\ last_switch_time # 0
    /\ gba.decision = "false"

\* (candidate - current) / current >= num / den, a division by zero satisfying
\* nothing.
C6_Ratio(candidate, current, num, den) ==
    \/ current > 0 /\ den * candidate >= (den + num) * current
    \/ current < 0 /\ den * candidate <= (den + num) * current

\* C6: with a current algorithm set, the interval elapsed and data for both, the
\* threshold strategy returns true iff (candidate - current) / current >=
\* switch_threshold, and the gradual strategy iff it is >= switch_threshold / 2;
\* current 100 and threshold 0.1 give true for 115 and false for 105.
C6_ThresholdMath ==
    \A c \in Algos :
        (/\ current_algorithm # "none"
         /\ current_algorithm # c
         /\ IntervalElapsed
         /\ HasData(current_algorithm)
         /\ HasData(c))
          => LET cur == profitability_data[current_algorithm]
                 new == profitability_data[c]
             IN /\ (ShouldSwitchWith("threshold", c) = "true")
                      <=> C6_Ratio(new, cur, SwitchThresholdNum, SwitchThresholdDen)
                /\ (ShouldSwitchWith("gradual", c) = "true")
                      <=> C6_Ratio(new, cur, SwitchThresholdNum, 2 * SwitchThresholdDen)
                /\ (cur = 100 /\ new = 115 /\ SwitchThresholdDen = 10 * SwitchThresholdNum)
                      => ShouldSwitchWith("threshold", c) = "true"
                /\ (cur = 100 /\ new = 105 /\ SwitchThresholdDen = 10 * SwitchThresholdNum)
                      => ShouldSwitchWith("threshold", c) = "false"
                /\ (switch_strategy \in {"threshold", "gradual"} /\ gba.called)
                      => gba.decision = ShouldSwitchWith(switch_strategy, gba.best)

\* C6 witness: under the threshold strategy a call with current profit 100
\* accepted the candidate with profit 115 after the interval had elapsed.
C6_Witness ==
    /\ switch_strategy = "threshold"
    /\ gba.called
    /\ gba.best \in Algos
    /\ current_algorithm # "none"
    /\ current_algorithm # gba.best
    /\ last_switch_time # 0
    /\ IntervalElapsed
    /\ HasData(current_algorithm)
    /\ profitability_data[current_algorithm] = 100
    /\ profitability_data[gba.best] = 115
    /\ gba.decision = "true"

\* C7: with fewer than 3 history samples for the current or for the candidate
\* algorithm, the predictive strategy decides as the threshold strategy does in
\* the same state.
C7_PredictiveFallback ==
    \A c \in Algos :
        (\/ Len(GetAlgorithmHistory(current_algorithm)) < 3
         \/ Len(GetAlgorithmHistory(c)) < 3)
          => ShouldSwitchWith("predictive", c) = ShouldSwitchWith("threshold", c)

\* C7 witness: a predictive call past the interval, with data for both algorithms
\* and two samples each, took the fallback and refused a candidate that the
\* trend comparison would have accepted.
C7_Witness ==
    /\ switch_strategy = "predictive"
    /\ gba.called
    /\ gba.best \in Algos
    /\ current_algorithm # "none"
    /\ current_algorithm # gba.best
    /\ IntervalElapsed
    /\ HasData(current_algorithm)
    /\ Len(GetAlgorithmHistory(current_algorithm)) = 2
    /\ Len(GetAlgorithmHistory(gba.best)) = 2
    /\ profitability_data[current_algorithm] < 0
    /\ profitability_data[gba.best] > 0
    /\ gba.decision = "false"

ActiveOids == {active_alerts[id] : id \in DOMAIN active_alerts}
InHistory(o) == \E i \in 1..Len(alert_history) : alert_history[i] = o

\* C1: once trigger() has stamped last_triggered = t, should_trigger returns false
\* on every snapshot at every time t' with t' - t < cooldown, so two accepted
\* firings of one rule are at least cooldown apart.
C1_CooldownInvariant ==
    /\ \A r \in Rules, m \in Snapshots :
          (trigger_count[r] > 0 /\ now - last_triggered[r] < AlertRules[r].cooldown)
             => ~ShouldTrigger(r, m)
    /\ \A i, j \in DOMAIN alert_objs :
          (i < j /\ alert_objs[i].rule # 0 /\ alert_objs[i].rule = alert_objs[j].rule)
             => alert_objs[j].timestamp - alert_objs[i].timestamp
                   >= AlertRules[alert_objs[i].rule].cooldown

\* C1 witness: a rule has fired twice, and it is again inside its cooldown while
\* the snapshot of the running pass satisfies its condition.
C1_Witness ==
    \E r \in Rules :
        /\ trigger_count[r] >= 2
        /\ now - last_triggered[r] < AlertRules[r].cooldown
        /\ now > last_triggered[r]
        /\ al_pc = "rules"
        /\ al_rule = r
        /\ EvaluateCondition(r, al_metrics)

\* C8: the active set holds at most one alert per rule.
C8_OneActivePerRule ==
    \A r \in Rules :
        Cardinality({o \in ActiveOids : alert_objs[o].rule = r}) <= 1

\* C9: an active alert is resolved by a reconciliation pass only if its governing
\* rule's condition evaluates false on that pass's snapshot.
C9_ResolvedOnlyWhenConditionFalse ==
    \A o \in DOMAIN alert_objs :
        (alert_objs[o].status = "resolved" /\ alert_objs[o].rule # 0)
            => alert_objs[o].resolved_cond = "false"

\* C10: when a reconciliation pass finds the governing rule's condition false for
\* an active alert, the alert leaves the active set, stays in the history with
\* status resolved and resolved_timestamp >= timestamp, and one resolution
\* notification is dispatched for it per sending channel, never a second one.
C10_ResolutionLifecycle ==
    /\ al_pc = "sleep" =>
          \A o \in ActiveOids :
              alert_objs[o].rule # 0 => EvaluateCondition(alert_objs[o].rule, al_metrics)
    /\ \A o \in DOMAIN alert_objs :
          alert_objs[o].status = "resolved" =>
              /\ o \notin ActiveOids
              /\ InHistory(o)
              /\ alert_objs[o].resolved_timestamp >= alert_objs[o].timestamp
              /\ \A c \in Channels :
                    AlertChannels[c].enabled => alert_objs[o].sent[c].resolved = 1
    /\ \A o \in DOMAIN alert_objs, c \in Channels : alert_objs[o].sent[c].resolved <= 1

\* ------------------------------------------------ claims, Recovery Manager

\* The actions the last handle_error call went through, in order.
OwnVisits == rec_call.visits

\* A visit that invoked the action's _recover.
Invoked(v) == v.result # "skipped"

\* C11: an action whose failure_count has reached max_attempts is not invoked by
\* any handle_error call, whatever time has passed since its last attempt, and
\* no step lowers a failure_count.
C11_ExhaustedNeverInvoked ==
    [][/\ \A a \in RecActions : rec_failure_count'[a] >= rec_failure_count[a]
       /\ \A i \in DOMAIN rec_call'.visits :
             LET v == rec_call'.visits[i]
             IN Invoked(v) => v.failures_before < RecActionDefs[v.action].max_attempts
      ]_vars

\* C11 witness: a call passed over an exhausted action whose cooldown had elapsed.
C11_Witness ==
    /\ rec_call.called
    /\ rec_call.eligible
    /\ \E i \in DOMAIN OwnVisits :
          LET v == OwnVisits[i]
          IN /\ ~Invoked(v)
             /\ v.failures_before >= RecActionDefs[v.action].max_attempts
             /\ v.since_last > RecActionDefs[v.action].cooldown

\* C12: handle_error with severity CRITICAL counts the event and appends it to the
\* history, unresolved and with no recovery attempt; it runs no recovery action
\* and leaves every action's counters and resolved_errors as they were.
C12_CriticalOnlyLogged ==
    [][(/\ total_errors' # total_errors
        /\ rec_call'.severity = "critical")
          => /\ total_errors' = total_errors + 1
             /\ critical_errors' = critical_errors + 1
             /\ error_history'[Len(error_history')] =
                   [timestamp |-> now, severity |-> "critical",
                    component |-> rec_call'.component,
                    recovery_attempts |-> 0, resolved |-> FALSE]
             /\ ~rec_call'.eligible
             /\ ~rec_call'.resolved
             /\ rec_call'.visits = <<>>
             /\ UNCHANGED <<rec_last_attempt, rec_success_count,
                            rec_failure_count, resolved_errors>>
      ]_vars

\* C12 witness: a critical error was handled while an action registered for its
\* component could attempt and no burst was on.
C12_Witness ==
    /\ rec_call.called
    /\ rec_call.severity = "critical"
    /\ rec_call.recent_all <= BurstLimit
    /\ \E i \in DOMAIN ActionsOf(rec_call.component) :
          CanAttempt(RecState, ActionsOf(rec_call.component)[i])

\* C13: a non-critical error is denied recovery exactly when more than the burst
\* limit of events of its own component lie in the window.
C13_BurstCountsOwnComponent ==
    (rec_call.called /\ rec_call.severity # "critical")
        => (~rec_call.eligible <=> rec_call.recent_own > BurstLimit)

\* C14: for an eligible error the actions visited are, in order, the component's
\* actions then the general ones, up to and including the first success; only
\* actions that cannot attempt are passed over; the error is resolved iff the
\* last action run succeeded; an ineligible error visits nothing.
C14_RecoveryOrder ==
    rec_call.called =>
        LET vs == OwnVisits
            comp == ActionsOf(rec_call.component)
            full == comp \o ActionsOf("general")
        IN /\ ~rec_call.eligible => (vs = <<>> /\ ~rec_call.resolved)
           /\ rec_call.eligible =>
                /\ Len(vs) <= Len(full)
                /\ \A i \in DOMAIN vs :
                      /\ vs[i].action = full[i]
                      /\ vs[i].list = IF i <= Len(comp) THEN "component" ELSE "general"
                      /\ i < Len(vs) => vs[i].result # "ok"
                      /\ ~Invoked(vs[i]) <=>
                            ~(/\ vs[i].since_last > RecActionDefs[vs[i].action].cooldown
                              /\ vs[i].failures_before <
                                    RecActionDefs[vs[i].action].max_attempts)
                /\ (vs = <<>> \/ vs[Len(vs)].result # "ok") => Len(vs) = Len(full)
                /\ rec_call.resolved <=> (vs # <<>> /\ vs[Len(vs)].result = "ok")

\* C14 witness: a component action failed and a general action then succeeded.
C14_Witness ==
    /\ rec_call.called
    /\ rec_call.eligible
    /\ rec_call.resolved
    /\ \E i, j \in DOMAIN OwnVisits :
          /\ i < j
          /\ OwnVisits[i].list = "component"
          /\ OwnVisits[i].result \in {"fail", "raise"}
          /\ OwnVisits[j].list = "general"
          /\ OwnVisits[j].result = "ok"


\* The policy the pass is at was executed by this step.
PolicyStepTaken(kind) ==
    /\ rm_pc = "policies"
    /\ scaling_policies[rm_policy] = kind
    /\ rm_call'.policy = rm_policy
    /\ <<rm_pc, rm_policy>>' # <<rm_pc, rm_policy>>

\* C15: with cpu_threads > 1, execute_scale of the CPU policy on a snapshot with
\* CPU% above 85 (no success in the cooldown before it) lowers cpu_threads by
\* exactly 1 and returns success, stamping last_action; every execute_scale
\* earlier than the cooldown after a success returns false and leaves
\* cpu_threads unchanged, whatever the snapshot.
C15_CpuPolicyCooldown ==
    [][PolicyStepTaken("cpu") =>
        LET k == rm_policy
            since == now - sp_last_action[k]
        IN /\ (cpu_threads > 1 /\ rm_metrics.cpu > CpuScaleThreshold
                  /\ since >= ScaleCooldown)
                => /\ cpu_threads' = cpu_threads - 1
                   /\ rm_call'.result = "true"
                   /\ sp_last_action'[k] = now
           /\ (sp_action_count[k] > 0 /\ since < ScaleCooldown)
                => /\ cpu_threads' = cpu_threads
                   /\ rm_call'.result = "false"]_vars

\* The CPU policy, having lowered cpu_threads once and with threads left to give,
\* was called again inside its cooldown on a snapshot above the threshold, and
\* refused.
C15_Witness ==
    /\ rm_call = [policy |-> 1, result |-> "false"]
    /\ scaling_policies[1] = "cpu"
    /\ sp_action_count[1] = 1
    /\ now - sp_last_action[1] < ScaleCooldown
    /\ now > sp_last_action[1]
    /\ cpu_threads = MaxThreads - 1
    /\ cpu_threads > 1
    /\ rm_metrics.cpu > CpuScaleThreshold

\* The step executed a policy whose condition held outside its cooldown and
\* whose action changed nothing.
ActionFailed ==
    /\ rm_pc = "policies"
    /\ rm_call'.policy = rm_policy
    /\ <<rm_pc, rm_policy>>' # <<rm_pc, rm_policy>>
    /\ now - sp_last_action[rm_policy] >= PolicyCooldown(scaling_policies[rm_policy])
    /\ ScaleCondition(scaling_policies[rm_policy], rm_metrics)
    /\ \/ scaling_policies[rm_policy] = "cpu" /\ cpu_threads = 1
       \/ scaling_policies[rm_policy] = "intensity" /\ intensity = IntensityFloor

\* C16: when a policy's action reports failure (the CPU policy at its floor of
\* one thread, the intensity policy at its floor), execute_scale returns false
\* and the policy's last_action and action_count, the monitor's scale_actions
\* and the mining configuration are left as they were.
C16_FailedActionChangesNothing ==
    [][ActionFailed =>
        /\ rm_call'.result = "false"
        /\ UNCHANGED <<sp_last_action, sp_action_count, scale_actions,
                       cpu_threads, intensity>>]_vars

\* The CPU policy was executed at one thread on a snapshot above its threshold,
\* outside any cooldown, and reported failure.
C16_Witness ==
    /\ rm_call = [policy |-> 1, result |-> "false"]
    /\ scaling_policies[1] = "cpu"
    /\ cpu_threads = 1
    /\ rm_metrics.cpu > CpuScaleThreshold
    /\ sp_action_count[1] = 0
    /\ sp_last_action[1] = 0


\* The step is a turn of the alerting loop's rule body that raised.
RuleRaised == al_faults' # al_faults

\* The step is a turn of the scaler's policy pass in which execute_scale raised.
PolicyRaised ==
    /\ rm_pc = "policies"
    /\ <<rm_pc, rm_policy>>' # <<rm_pc, rm_policy>>
    /\ rm_call'.result = "raised"

\* C17: an exception raised by one rule of the alerting loop, or one policy of
\* the scaler's pass, is caught for that rule alone: the loop goes on to the next
\* rule or policy of the same iteration, after the last rule to the
\* reconciliation, after the last policy to the next iteration.
C17_FaultCaughtPerRule ==
    [][/\ RuleRaised =>
            /\ al_pc = "rules"
            /\ al_running' = al_running
            /\ IF al_rule < Len(AlertRules)
               THEN al_pc' = "rules" /\ al_rule' = al_rule + 1
               ELSE al_pc' = "reconcile"
       /\ PolicyRaised =>
            /\ rm_running' = rm_running
            /\ IF rm_policy < Len(scaling_policies)
               THEN rm_pc' = "policies" /\ rm_policy' = rm_policy + 1
               ELSE rm_pc' = "ready"]_vars

\* In one pass the first rule raised inside _handle_alert, the second rule was
\* then evaluated and fired with its notification sent, and the pass stands at
\* its reconciliation step.
C17_Witness ==
    /\ al_faults = 1
    /\ al_pc = "reconcile"
    /\ \E o1, o2 \in DOMAIN alert_objs :
          /\ alert_objs[o1].rule = 1
          /\ alert_objs[o1].timestamp = now
          /\ alert_objs[o1].sent = NoSends
          /\ alert_objs[o2].rule = 2
          /\ alert_objs[o2].timestamp = now
          /\ alert_objs[o2].sent[1].active = 1


\* The enabled channels from c on, in registration order.
RECURSIVE EnabledFrom(_)
EnabledFrom(c) ==
    IF c > Len(AlertChannels) THEN <<>>
    ELSE IF AlertChannels[c].enabled THEN <<c>> \o EnabledFrom(c + 1)
    ELSE EnabledFrom(c + 1)

\* C18: in every dispatch of an alert or a resolution the channels whose send was
\* attempted are exactly the enabled registered channels, each once and in
\* registration order, whatever the earlier channels did; no disabled channel is
\* sent to and no exception leaves the dispatch.
C18_EveryEnabledChannelOnce ==
    dispatch.status # "none" =>
        /\ [i \in DOMAIN dispatch.attempts |-> dispatch.attempts[i].channel]
              = EnabledFrom(1)
        /\ ~dispatch.escaped
        /\ \A o \in dispatch.alerts, c \in Channels :
              LET n == IF dispatch.status = "resolved"
                       THEN alert_objs[o].sent[c].resolved
                       ELSE alert_objs[o].sent[c].active
              IN n = IF AlertChannels[c].enabled THEN 1 ELSE 0

\* A resolution was dispatched while the first enabled channel raised and the
\* last enabled channel was still asked.
C18_Witness ==
    /\ dispatch.status = "resolved"
    /\ dispatch.alerts # {}
    /\ Len(dispatch.attempts) = 2
    /\ dispatch.attempts[1] = [channel |-> 1, result |-> "raised"]
    /\ dispatch.attempts[2].channel = 3


\* The step takes the engine's loop from its "while self.running" into an
\* iteration.
IterationBegins(e) ==
    /\ AtLoopTop(e)
    /\ IF e = "alerting" THEN al_pc' = "rules"
       ELSE IF e = "scaler" THEN rm_pc' = "policies"
       ELSE upd_idx' # upd_idx \/ upd_sleeping'

\* The position of every loop thread.
threadPos == <<al_pc, al_rule, rm_pc, rm_policy, upd_idx, upd_sleeping, alive>>

\* C19: while an engine's running flag is false its loop begins no iteration, and
\* its thread, if it lives, eventually ends; a stop call leaves its join, and no
\* step of a stop call moves a loop thread.
C19_StopEndsLoop ==
    /\ [][\A e \in Engines : ~Running(e) => ~IterationBegins(e)]_vars
    /\ [][joining' # joining => UNCHANGED threadPos]_vars
    /\ (~al_running /\ Alive("alerting")) ~> ~Alive("alerting")
    /\ (~rm_running /\ Alive("scaler")) ~> ~Alive("scaler")
    /\ (~sw_running /\ Alive("switcher")) ~> ~Alive("switcher")
    /\ \A e \in Engines : (e \in joining) ~> (e \notin joining)

\* The switcher was stopped in the middle of an update cycle, stop has returned
\* from its join, and the thread still lives, one algorithm into its cycle.
C19_Witness ==
    /\ ~sw_running
    /\ Alive("switcher")
    /\ joining = {}
    /\ upd_idx = 2


\* C20: a thread that stands inside get_best_algorithm, record_switch, the update
\* loop's write or an accessor holds the switcher's lock, so these bodies never
\* overlap, and get_best_algorithm never finds a record_switch half applied.
C20_AccessesUnderLock ==
    /\ \A t \in LockThreads : lk_pc[t] # "idle" => lock_owner = t
    /\ seen # "partial"

\* get_best_algorithm has read the fields whole while it holds the lock, after
\* at least two switches were recorded.
C20_Witness ==
    /\ seen = "whole"
    /\ lock_owner = "reader"
    /\ lk_pc["reader"] = "release"
    /\ Len(switch_history) >= 2

\* The step is a turn of "for rule in self.alert_rules" on rule r.
RuleStepOn(r) ==
    /\ al_pc = "rules"
    /\ al_rule = r
    /\ <<al_pc, al_rule>>' # <<al_pc, al_rule>>

\* C21: a suppress call sets the rule's suppressed_until to now + d whatever it
\* was before (the last call wins, also when it shortens the window), and while
\* now < suppressed_until should_trigger is false on every snapshot, so the
\* loop's turn on the rule triggers nothing.
C21_SuppressLastCallWins ==
    [][/\ suppressed_until' # suppressed_until =>
            \E r \in Rules, d \in 1..BaseCooldown :
                suppressed_until' = [suppressed_until EXCEPT ![r] = now + d]
       /\ \A r \in Rules :
            now < suppressed_until[r] =>
                /\ \A m \in Snapshots : ~ShouldTrigger(r, m)
                /\ RuleStepOn(r) =>
                      /\ trigger_count'[r] = trigger_count[r]
                      /\ last_triggered'[r] = last_triggered[r]]_vars

\* The loop has passed the first rule on a snapshot above its threshold, outside
\* its cooldown and inside a suppression window set after construction, and the
\* rule did not fire.
C21_Witness ==
    /\ al_pc = "rules"
    /\ al_rule = 2
    /\ now > Epoch
    /\ suppressed_until[1] = now + 1
    /\ al_metrics.cpu > AlertRules[1].threshold
    /\ now - last_triggered[1] >= AlertRules[1].cooldown
    /\ trigger_count[1] = 0

\* The actions _attempt_recovery goes through for a component, in order.
RecoveryPlan(component) == ActionsOf(component) \o ActionsOf("general")

\* C22: when the procedure of a recovery action raises inside handle_error, the
\* action's failure_count grows by exactly one, handle_error still completes,
\* and the actions after it in the component's and the general list are still
\* visited, up to the first success.
C22_RaisingActionCounted ==
    [][total_errors' # total_errors =>
        LET visits == rec_call'.visits
            plan == RecoveryPlan(rec_call'.component)
        IN /\ rec_call'.called
           /\ total_errors' = total_errors + 1
           /\ \A i \in DOMAIN visits :
                visits[i].result = "raise" =>
                    /\ rec_failure_count'[visits[i].action]
                          = rec_failure_count[visits[i].action] + 1
                    /\ visits[i].failures_before
                          = rec_failure_count[visits[i].action]
                    /\ i < Len(plan) =>
                          /\ Len(visits) > i
                          /\ visits[i + 1].action = plan[i + 1]]_vars

\* In one handle_error call the component's action raised and the general action
\* after it was run.
C22_Witness ==
    /\ rec_call.called
    /\ \E i \in DOMAIN rec_call.visits :
          /\ rec_call.visits[i].result = "raise"
          /\ rec_call.visits[i].list = "component"
          /\ i < Len(rec_call.visits)
          /\ rec_call.visits[i + 1].list = "general"
          /\ rec_call.visits[i + 1].result \in {"ok", "fail", "raise"}

\* The actions whose procedure the handle_error call of this step ran.
RanIn(call) ==
    {call.visits[i].action :
        i \in {j \in DOMAIN call.visits : call.visits[j].result # "skipped"}}

ruleState == <<last_triggered, trigger_count, suppressed_until>>

\* The step is a create_manual_alert call: a new Alert that no rule built.
ManualAlertCreated ==
    /\ Len(alert_objs') = Len(alert_objs) + 1
    /\ alert_objs'[Len(alert_objs')].rule = 0

\* C24: acknowledge_alert on an id of the active set makes that alert suppressed
\* and returns true, leaving the rules, the active set and the history alone;
\* on any other id it returns false and changes nothing.  create_manual_alert
\* adds an active alert under its id and sends it once to every enabled
\* channel, without reading or changing any rule's cooldown or suppression.
C24_OperatorCalls ==
    [][/\ (ack = NoAck /\ ack' # NoAck) =>
            IF ack'.id \in DOMAIN active_alerts
            THEN /\ ack'.ret = "true"
                 /\ alert_objs' = [alert_objs EXCEPT
                                      ![active_alerts[ack'.id]].status = "suppressed"]
                 /\ UNCHANGED <<now, al_running, al_pc, al_rule, al_metrics, ruleState,
                                active_alerts, alert_history>>
            ELSE /\ ack'.ret = "false"
                 /\ UNCHANGED <<now, alertVars>>
       /\ ManualAlertCreated =>
            LET o == Len(alert_objs')
                new == alert_objs'[o]
            IN /\ new.status = "active"
               /\ new.id \in DOMAIN active_alerts'
               /\ active_alerts'[new.id] = o
               /\ alert_history'[Len(alert_history')] = o
               /\ \A c \in Channels :
                     new.sent[c] = [active |-> IF AlertChannels[c].enabled THEN 1 ELSE 0,
                                    resolved |-> 0]
               /\ UNCHANGED ruleState]_vars

\* acknowledge_alert has just refused the id of an alert that exists but is no
\* longer active, and an alert named like the first rule was created by hand at
\* a time when that rule is both in its cooldown and suppressed.
C24_Witness ==
    /\ ack.ret = "false"
    /\ \E o \in DOMAIN alert_objs :
          /\ alert_objs[o].id = ack.id
          /\ alert_objs[o].status = "resolved"
    /\ \E o \in DOMAIN alert_objs :
          /\ alert_objs[o].rule = 0
          /\ alert_objs[o].title = AlertRules[1].name
          /\ alert_objs[o].timestamp = now
          /\ alert_objs[o].sent[1].active = 1
    /\ now < suppressed_until[1]
    /\ now - last_triggered[1] < AlertRules[1].cooldown

\* The values a sequence holds.
SeqRange(s) == {s[i] : i \in 1..Len(s)}

\* C25: the profit history of an algorithm is a log of the profits observed in
\* past update cycles: when an update cycle replaces the ProfitabilityData of an
\* algorithm that has samples in its history, the replaced profit is still among
\* the values _get_algorithm_history returns afterwards.
C25_HistoryKeepsPastProfits ==
    [][\A a \in DOMAIN profitability_data :
          (/\ profitability_data'[a] # profitability_data[a]
           /\ GetAlgorithmHistory(a) # <<>>)
          => profitability_data[a] \in SeqRange(GetAlgorithmHistory(a)')]_vars

\* The algorithms whose ProfitabilityData the update cycle in progress has
\* already replaced: those before the loop's position in algorithms.keys().
WrittenThisCycle == {AlgoOrder[i] : i \in 1..(upd_idx - 1)}

\* The data hold entries written by the cycle in progress next to entries a
\* previous cycle wrote.
MixedCycles ==
    /\ DOMAIN profitability_data \cap WrittenThisCycle # {}
    /\ DOMAIN profitability_data \ WrittenThisCycle # {}

\* The step in which get_best_algorithm reads the data under the lock.
ReaderReads == lk_pc["reader"] = "read" /\ lk_pc'["reader"] = "release"

\* C26: get_best_algorithm never reads a profitability set that mixes entries
\* written by two different update cycles.
C26_ReaderSeesWholeCycles == [][ReaderReads => ~MixedCycles]_vars

\* C27: get_best_algorithm returns the default algorithm when there is no
\* profitability data; when _should_switch permits the switch it returns an
\* algorithm whose profit_per_hour is maximal in the current data; when it does
\* not, it returns the current algorithm.
C27_GetBestReturns ==
    gba.called =>
       /\ DOMAIN profitability_data = {} => gba.ret = GetDefaultAlgorithm
       /\ (DOMAIN profitability_data # {} /\ gba.decision = "true") =>
             /\ gba.ret \in DOMAIN profitability_data
             /\ \A a \in DOMAIN profitability_data :
                   profitability_data[a] <= profitability_data[gba.ret]
       /\ (DOMAIN profitability_data # {} /\ gba.decision = "false") =>
             /\ current_algorithm # "none"
             /\ gba.ret = current_algorithm

\* A call that was permitted to leave a held algorithm for a strictly more
\* profitable one.
C27_Witness ==
    /\ gba.called
    /\ gba.decision = "true"
    /\ current_algorithm # "none"
    /\ gba.ret # current_algorithm
    /\ profitability_data[gba.ret] > profitability_data[current_algorithm]

\* The step is a turn of the policy pass in which the policy of this kind
\* executed its action with success.
PolicySucceeds(kind) ==
    /\ rm_pc = "policies"
    /\ <<rm_pc, rm_policy>>' # <<rm_pc, rm_policy>>
    /\ scaling_policies[rm_policy] = kind
    /\ rm_call'.result = "true"

\* C28: from cpu_threads >= 1 and intensity >= 0.3, scaling-policy actions and
\* recovery actions in any order keep cpu_threads >= 1 and intensity >= 0.3; a
\* successful CPU-policy action lowers cpu_threads by exactly one and a successful
\* intensity-policy action sets intensity to max(0.3, 0.9 * intensity).
C28_ResourceFloors ==
    /\ [](cpu_threads >= 1 /\ intensity >= IntensityFloor)
    /\ [][/\ PolicySucceeds("cpu") => cpu_threads' = cpu_threads - 1
          /\ PolicySucceeds("intensity") =>
                intensity' = Max(IntensityFloor, (intensity * 9) \div 10)]_vars

\* Both floors are reached after the CPU policy, the intensity policy and the
\* reduce_resources recovery have all acted on the configuration.
C28_Witness ==
    /\ cpu_threads = 1
    /\ intensity = IntensityFloor
    /\ scaling_policies # <<>>
    /\ \E k, l \in DOMAIN scaling_policies :
          /\ scaling_policies[k] = "cpu" /\ sp_action_count[k] > 0
          /\ scaling_policies[l] = "intensity" /\ sp_action_count[l] > 0
    /\ \E a \in RecActions :
          RecActionDefs[a].name = "reduce_resources" /\ rec_success_count[a] > 0

\* The step from log old to log new has appended one entry to a log of capacity
\* cap: the entries kept are the most recent ones of old, in their order.
Appended(old, new, cap) ==
    /\ Len(new) = IF Len(old) < cap THEN Len(old) + 1 ELSE cap
    /\ \A i \in 1..(Len(new) - 1) : new[i] = old[i + Len(old) + 1 - Len(new)]

C30_NoAlertInsideWindow ==
    [][\A r \in Rules :
          trigger_count'[r] # trigger_count[r] => ~(now < suppressed_until[r])]_vars

\* The step in which a thread, past can_attempt, stamps last_attempt and starts
\* the recovery procedure of action a.
ProcedureStarts(a) ==
    \E t \in HandlerThreads :
        /\ rc_pc[t] = [at |-> "passed", action |-> a]
        /\ rc_pc'[t].at = "recovering"

\* C31: with handle_error running in several threads, an action's failure_count
\* never exceeds max_attempts, and its recovery procedure is never started
\* within its cooldown of the previous start.
C31_ConcurrentExecuteSafe ==
    /\ [](\A a \in RecActions : rec_failure_count[a] <= RecActionDefs[a].max_attempts)
    /\ [][\A a \in RecActions :
             ProcedureStarts(a) => now - rec_last_attempt[a] > RecActionDefs[a].cooldown]_vars

\* The loop threads of an engine that are inside an iteration.
InIteration(e) == {i \in LoopThreads : loop_pos[e][i] = "body"}

\* C32: after any sequence of start and stop calls at most one loop thread of an
\* engine executes iterations: no two threads are inside an iteration at once.
C32_OneLoopPerEngine == \A e \in Engines : Cardinality(InIteration(e)) <= 1

\* C33: from a start_monitoring call until the next stop_monitoring a monitoring
\* loop runs health checks: the flag is set and the loop thread lives, also when
\* the call comes after a stop whose loop thread had not ended yet.
C33_RestartTakesEffect ==
    rec_mon.last_call = "start" => (rec_mon.running /\ rec_mon.pos # "none")

\* C34: the health check at the end of handle_error re-enters handle_error a
\* bounded number of times only, whatever the readings: the nesting of
\* handle_error calls stays below the depth the model follows.
C34_ReentryBounded == Len(he_stack) < MaxCallDepth

\* The policies of a kind the monitor holds.
PoliciesOf(kind) == {k \in DOMAIN scaling_policies : scaling_policies[k] = kind}

\* C35: whatever starts and stops were called, the monitor holds one default
\* policy of each kind at most, and so one CPU policy at most has lowered
\* cpu_threads within the cooldown window that ends now.
C35_OneDefaultPolicyOfEachKind ==
    /\ \A kind \in SeqRange(DefaultPolicies) : Cardinality(PoliciesOf(kind)) <= 1
    /\ Cardinality({k \in PoliciesOf("cpu") :
                      sp_action_count[k] > 0 /\ now - sp_last_action[k] < ScaleCooldown}) <= 1

\* The step is a turn of the policy pass in which the policy of this kind ran
\* its _scale_action.
ActionRuns(kind) ==
    /\ rm_pc = "policies"
    /\ <<rm_pc, rm_policy>>' # <<rm_pc, rm_policy>>
    /\ scaling_policies[rm_policy] = kind
    /\ ShouldScale(rm_policy, rm_metrics)

\* C36: the intensity action never raises the intensity: when it succeeds the new
\* intensity is strictly lower, and from an intensity at or below the 0.3 floor it
\* fails and leaves the intensity as it was.
C36_IntensityNeverRaised ==
    [][ActionRuns("intensity") =>
          /\ rm_call'.result = "true" => intensity' < intensity
          /\ intensity <= IntensityFloor =>
                rm_call'.result = "false" /\ intensity' = intensity]_vars

\* The alert objects that are entries of the active set.
ActiveObjects == {active_alerts[id] : id \in DOMAIN active_alerts}

\* C37: rules that share a name are distinct rules: every alert a rule fired has
\* an active-set entry of its own until it is resolved, also when both rules fire
\* in the same second, and the reconciliation keeps or resolves each active alert
\* by the should_trigger of the rule that fired it.
C37_SameNameRulesDistinct ==
    /\ [](\A o \in DOMAIN alert_objs :
             (alert_objs[o].rule # 0 /\ alert_objs[o].status # "resolved")
                => o \in ActiveObjects)
    /\ [][(al_pc = "reconcile" /\ al_pc' = "sleep") =>
             \A id \in DOMAIN active_alerts :
                LET alert == alert_objs[active_alerts[id]]
                IN alert.rule # 0 =>
                      (id \notin DOMAIN active_alerts'
                          <=> ~ShouldTrigger(alert.rule, al_metrics))]_vars

\* The step replaces the estimate of algorithm a by a higher one and leaves
\* everything else _should_switch reads as it was.
CandidateProfitRises(a) ==
    /\ a \in DOMAIN profitability_data
    /\ profitability_data'[a] > profitability_data[a]
    /\ current_algorithm \in DOMAIN profitability_data \ {a}
    /\ profitability_data'[current_algorithm] = profitability_data[current_algorithm]
    /\ UNCHANGED <<now, switch_strategy, current_algorithm, last_switch_time>>

\* C38: under the threshold and gradual strategies _should_switch is monotone in
\* the candidate's profit: a candidate it accepts is still accepted when nothing
\* but its profit changed and the profit is higher, whatever the sign of the
\* current algorithm's profit.
C38_DecisionMonotone ==
    [][\A a \in Algos :
          (/\ switch_strategy \in {"threshold", "gradual"}
           /\ CandidateProfitRises(a)
           /\ ShouldSwitch(a) = "true")
             => ShouldSwitch(a)' = "true"]_vars

\* The runs of the procedure of action a among the visits of a handle_error call.
RunsIn(call, a) ==
    Cardinality({i \in DOMAIN call.visits :
                    call.visits[i].action = a /\ call.visits[i].result # "skipped"})

\* The events of the history marked resolved.
ResolvedEvents == {i \in DOMAIN error_history : error_history[i].resolved}

\* C39: after handle_error calls made one after the other, resolved_errors and
\* critical_errors are at most total_errors, resolved_errors is the number of
\* events marked resolved, and each action's success_count + failure_count is the
\* number of runs of its procedure: zero at the start, and grown in each call by
\* the runs of the call.
C39_CountersAgree ==
    /\ [](/\ resolved_errors <= total_errors
          /\ critical_errors <= total_errors
          /\ resolved_errors = Cardinality(ResolvedEvents)
          /\ total_errors = 0 =>
                \A a \in RecActions : rec_success_count[a] + rec_failure_count[a] = 0)
    /\ [][total_errors' # total_errors =>
            \A a \in RecActions :
               rec_success_count'[a] + rec_failure_count'[a]
                  = rec_success_count[a] + rec_failure_count[a] + RunsIn(rec_call', a)]_vars

\* Errors of every kind were handled: a critical one, a resolved one, and a
\* procedure that ran without success before another one succeeded.
C39_Witness ==
    /\ total_errors = MaxErrors
    /\ critical_errors > 0
    /\ resolved_errors > 0
    /\ resolved_errors < total_errors - critical_errors
    /\ \E a, b \in RecActions : rec_failure_count[a] > 0 /\ rec_success_count[b] > 0
    /\ rec_call.called
    /\ \E i \in DOMAIN rec_call.visits : rec_call.visits[i].result = "raise"

====
